---- MODULE Spec2Model ----
(***************************************************************************)
(* oauth2-proxy-injector: the mutating admission webhook that injects an   *)
(* oauth2-proxy sidecar into annotated pods.  The model follows one        *)
(* admission of a pod through PodMutator.Mutate, lets the API server apply *)
(* the returned JSON patch (RFC 6902) to the pod document and re-admits    *)
(* the patched pod.                                                        *)
(*                                                                         *)
(* Go strings are TLA+ strings, handled character by character through     *)
(* SubSeq, Len and \o.  A Go pointer (to string, bool, SecretRef) is a    *)
(* record with a field "set" (FALSE for nil).  A Go error is a string,     *)
(* "" for nil.                                                             *)
(***************************************************************************)
EXTENDS Integers, Sequences, FiniteSets, TLC

VARIABLES
    envelope,   \* the HTTP request and the AdmissionRequest in it, without the object
    pod,        \* the Pod under admission, as the API server holds it
    service,    \* the Service under admission
    cluster,    \* the ConfigMaps of the cluster: <<namespace, name>> -> data
    webhook,    \* the flags the webhook was started with
    phase,      \* "new", "answered", "applied" or "rejected"
    round,      \* 1 for the first admission, 2 for the re-admission of the patched object
    result,     \* what the mutator returned and did in the last admission
    response,   \* the HTTP response of the last admission
    builder,    \* a patch builder between its construction and Build
    calls       \* the constructor call and the method calls made on builder, in order

vars == <<envelope, pod, service, cluster, webhook, phase, round, result, response, builder, calls>>

-----------------------------------------------------------------------------
(* Bounds of the model *)

MaxContainers == 2
MaxOverrides == 2
MaxCalls == 3

-----------------------------------------------------------------------------
(* package strings / strconv *)

Char(s, i) == SubSeq(s, i, i)

Digits == {"0", "1", "2", "3", "4", "5", "6", "7", "8", "9"}

DigitVal(c) == CHOOSE n \in 0..9 : Char("0123456789", n + 1) = c

DigitChar(n) == Char("0123456789", n + 1)

WhiteSpace == {" ", "\t", "\n", "\r"}

RECURSIVE TrimLeft(_)
TrimLeft(s) ==
    IF s # "" /\ Char(s, 1) \in WhiteSpace THEN TrimLeft(SubSeq(s, 2, Len(s))) ELSE s

RECURSIVE TrimRight(_)
TrimRight(s) ==
    IF s # "" /\ Char(s, Len(s)) \in WhiteSpace THEN TrimRight(SubSeq(s, 1, Len(s) - 1)) ELSE s

TrimSpace(s) == TrimRight(TrimLeft(s))

UpperCase == "ABCDEFGHIJKLMNOPQRSTUVWXYZ"
LowerCase == "abcdefghijklmnopqrstuvwxyz"

LowerChar(c) ==
    IF \E i \in 1..26 : Char(UpperCase, i) = c
    THEN Char(LowerCase, CHOOSE i \in 1..26 : Char(UpperCase, i) = c)
    ELSE c

RECURSIVE ToLower(_)
ToLower(s) == IF s = "" THEN "" ELSE LowerChar(Char(s, 1)) \o ToLower(SubSeq(s, 2, Len(s)))

(* index of the first occurrence of the one-character string c in s, 0 if none *)
IndexOf(s, c) ==
    IF \E i \in 1..Len(s) : Char(s, i) = c
    THEN CHOOSE i \in 1..Len(s) : Char(s, i) = c /\ \A j \in 1..(i - 1) : Char(s, j) # c
    ELSE 0

(* strings.Split(s, sep) for a one-character separator: always at least one element *)
RECURSIVE Split(_, _)
Split(s, sep) ==
    LET i == IndexOf(s, sep)
    IN IF i = 0 THEN <<s>>
       ELSE <<SubSeq(s, 1, i - 1)>> \o Split(SubSeq(s, i + 1, Len(s)), sep)

(* strings.SplitN(s, sep, 2) *)
SplitN2(s, sep) ==
    LET i == IndexOf(s, sep)
    IN IF i = 0 THEN <<s>> ELSE <<SubSeq(s, 1, i - 1), SubSeq(s, i + 1, Len(s))>>

RECURSIVE Join(_, _)
Join(seq, sep) ==
    IF seq = <<>> THEN ""
    ELSE IF Len(seq) = 1 THEN seq[1]
    ELSE seq[1] \o sep \o Join(Tail(seq), sep)

(* strings.ReplaceAll(s, old, new) for a one-character old *)
RECURSIVE ReplaceAll(_, _, _)
ReplaceAll(s, old, new) ==
    IF s = "" THEN ""
    ELSE (IF Char(s, 1) = old THEN new ELSE Char(s, 1)) \o ReplaceAll(SubSeq(s, 2, Len(s)), old, new)

HasPrefix(s, p) == Len(s) >= Len(p) /\ SubSeq(s, 1, Len(p)) = p

(* %d of a 32-bit value *)
RECURSIVE ItoaNat(_)
ItoaNat(n) == IF n < 10 THEN DigitChar(n) ELSE ItoaNat(n \div 10) \o DigitChar(n % 10)

Itoa(n) == IF n < 0 THEN "-" \o ItoaNat(0 - n) ELSE ItoaNat(n)

AllDigits(s) == \A i \in 1..Len(s) : Char(s, i) \in Digits

RECURSIVE StripZeros(_)
StripZeros(s) == IF Len(s) > 1 /\ Char(s, 1) = "0" THEN StripZeros(SubSeq(s, 2, Len(s))) ELSE s

(* a < b for two digit strings of the same length *)
RECURSIVE DigitsLess(_, _)
DigitsLess(a, b) ==
    IF a = "" THEN FALSE
    ELSE IF Char(a, 1) # Char(b, 1) THEN DigitVal(Char(a, 1)) < DigitVal(Char(b, 1))
    ELSE DigitsLess(SubSeq(a, 2, Len(a)), SubSeq(b, 2, Len(b)))

MaxInt64 == "9223372036854775807"

(* strconv.Atoi fails on the empty string, on a non-digit and on a value    *)
(* beyond the 64-bit int; its callers only pass strings without a sign.     *)
AtoiErr(s) ==
    \/ s = ""
    \/ ~AllDigits(s)
    \/ LET z == StripZeros(s)
       IN Len(z) > Len(MaxInt64) \/ (Len(z) = Len(MaxInt64) /\ DigitsLess(MaxInt64, z))

(* the text of the error of strconv.Atoi(s), "" for no error *)
AtoiError(s) ==
    IF ~AtoiErr(s) THEN ""
    ELSE "strconv.Atoi: parsing \"" \o s \o "\": "
         \o (IF s = "" \/ ~AllDigits(s) THEN "invalid syntax" ELSE "value out of range")

(* the value of a digit string modulo 2^32, kept as two 16-bit limbs *)
RECURSIVE Limbs(_, _, _)
Limbs(s, hi, lo) ==
    IF s = "" THEN <<hi, lo>>
    ELSE LET l == lo * 10 + DigitVal(Char(s, 1))
             h == hi * 10 + (l \div 65536)
         IN Limbs(SubSeq(s, 2, Len(s)), h % 65536, l % 65536)

(* int32(n) for n = strconv.Atoi(s): the low 32 bits, read as two's complement *)
AtoiInt32(s) ==
    LET l == Limbs(s, 0, 0)
    IN IF l[1] >= 32768 THEN (l[1] - 65536) * 65536 + l[2] ELSE l[1] * 65536 + l[2]

(* the decimal value of s is exactly the 32-bit value n *)
DenotesInt32(s, n) == ~AtoiErr(s) /\ StripZeros(s) = Itoa(n)

-----------------------------------------------------------------------------
(* package annotation *)

AnnotationPrefix == "spacemule.net/oauth2-proxy."
KeyEnabled == AnnotationPrefix \o "enabled"
KeyConfig == AnnotationPrefix \o "config"
KeyInjected == AnnotationPrefix \o "injected"
KeyBlockDirectAccess == AnnotationPrefix \o "block-direct-access"
KeyProtectedPort == AnnotationPrefix \o "protected-port"
KeyIgnorePaths == AnnotationPrefix \o "ignore-paths"
KeyAPIPaths == AnnotationPrefix \o "api-paths"
KeySkipJWTBearerTokens == AnnotationPrefix \o "skip-jwt-bearer-tokens"
KeyUpstreamTLS == AnnotationPrefix \o "upstream-tls"
KeyClientID == AnnotationPrefix \o "client-id"
KeyClientSecretRef == AnnotationPrefix \o "client-secret-ref"
KeyCookieSecretRef == AnnotationPrefix \o "cookie-secret-ref"
KeyScope == AnnotationPrefix \o "scope"
KeyPKCEEnabled == AnnotationPrefix \o "pkce-enabled"
KeyEmailDomains == AnnotationPrefix \o "email-domains"
KeyAllowedGroups == AnnotationPrefix \o "allowed-groups"
KeyWhitelistDomains == AnnotationPrefix \o "whitelist-domains"
KeyCookieName == AnnotationPrefix \o "cookie-name"
KeyCookieDomains == AnnotationPrefix \o "cookie-domains"
KeyRedirectURL == AnnotationPrefix \o "redirect-url"
KeyExtraJWTIssuers == AnnotationPrefix \o "extra-jwt-issuers"
KeyPassAccessToken == AnnotationPrefix \o "pass-access-token"
KeySetXAuthRequest == AnnotationPrefix \o "set-xauthrequest"
KeyPassAuthorizationHeader == AnnotationPrefix \o "pass-authorization-header"
KeySkipProviderButton == AnnotationPrefix \o "skip-provider-button"
KeyProvider == AnnotationPrefix \o "provider"
KeyOIDCIssuerURL == AnnotationPrefix \o "oidc-issuer-url"
KeyOIDCGroupsClaim == AnnotationPrefix \o "oidc-groups-claim"
KeyCookieSecure == AnnotationPrefix \o "cookie-secure"
KeyProxyImage == AnnotationPrefix \o "proxy-image"
KeyPingPath == AnnotationPrefix \o "ping-path"
KeyReadyPath == AnnotationPrefix \o "ready-path"
KeyUpstream == AnnotationPrefix \o "upstream"

UpstreamTLSSecure == "https"
UpstreamTLSInsecure == "https-insecure"
UpstreamNoTLS == "http"

(* Go map access: m[k] is the zero value when k is absent *)
Has(m, k) == k \in DOMAIN m
Get(m, k) == IF k \in DOMAIN m THEN m[k] ELSE ""

NilString == [set |-> FALSE, v |-> ""]
NilBool == [set |-> FALSE, v |-> FALSE]
PtrTo(x) == [set |-> TRUE, v |-> x]

(* the zero value of ConfigOverrides: every override unset *)
ConfigOverrides ==
    [ClientID |-> NilString, ClientSecretRef |-> NilString, CookieSecretRef |-> NilString,
     Scope |-> NilString, PKCEEnabled |-> NilBool,
     EmailDomains |-> <<>>, EmailDomainsSet |-> FALSE,
     AllowedGroups |-> <<>>, AllowedGroupsSet |-> FALSE,
     WhitelistDomains |-> <<>>, WhitelistDomainsSet |-> FALSE,
     CookieName |-> NilString,
     CookieDomains |-> <<>>, CookieDomainsSet |-> FALSE,
     RedirectURL |-> NilString,
     ExtraJWTIssuers |-> <<>>, ExtraJWTIssuersSet |-> FALSE,
     PassAccessToken |-> NilBool, SetXAuthRequest |-> NilBool,
     PassAuthorizationHeader |-> NilBool, SkipProviderButton |-> NilBool,
     Provider |-> NilString, OIDCIssuerURL |-> NilString, OIDCGroupsClaim |-> NilString,
     CookieSecure |-> NilBool, ProxyImage |-> NilString, Upstream |-> NilString]

(* the zero value of annotation.Config *)
Config ==
    [Enabled |-> FALSE, ConfigMapName |-> "", BlockDirectAccess |-> FALSE,
     ProtectedPort |-> "", IgnorePaths |-> <<>>, APIPaths |-> <<>>,
     SkipJWTBearerTokens |-> FALSE, UpstreamTLS |-> "", PingPath |-> "", ReadyPath |-> "",
     Overrides |-> ConfigOverrides]

parseBoolPtr(value) ==
    LET v == ToLower(TrimSpace(value))
    IN IF v = "" THEN [ptr |-> NilBool, err |-> ""]
       ELSE IF v \in {"true", "1"} THEN [ptr |-> PtrTo(TRUE), err |-> ""]
       ELSE IF v \in {"false", "0"} THEN [ptr |-> PtrTo(FALSE), err |-> ""]
       ELSE [ptr |-> NilBool, err |-> "invalid boolean value: " \o value]

RECURSIVE TrimEach(_)
TrimEach(seq) == IF seq = <<>> THEN <<>> ELSE <<TrimSpace(Head(seq))>> \o TrimEach(Tail(seq))

parsePaths(pathsStr) == IF pathsStr = "" THEN <<>> ELSE TrimEach(Split(pathsStr, ","))

IsNamedPort(protectedPort) ==
    \E i \in 1..Len(protectedPort) : Char(protectedPort, i) \notin Digits

(* the *string override of key k: set, to the trimmed value, iff k is present *)
StringOverride(annotations, k) ==
    IF Has(annotations, k) THEN PtrTo(TrimSpace(annotations[k])) ELSE NilString

(* the *bool override of key k and the error of parsing it *)
BoolOverride(annotations, k) ==
    IF Has(annotations, k) THEN parseBoolPtr(annotations[k]) ELSE [ptr |-> NilBool, err |-> ""]

ListOverride(annotations, k) == IF Has(annotations, k) THEN parsePaths(annotations[k]) ELSE <<>>

SkipJWTValue(annotations) == ToLower(TrimSpace(Get(annotations, KeySkipJWTBearerTokens)))

(* the errors Parse can return, in the order of its checks *)
ParseErrors(annotations) ==
    <<BoolOverride(annotations, KeyCookieSecure).err,
      IF Has(annotations, KeySkipJWTBearerTokens)
            /\ SkipJWTValue(annotations) \notin {"true", "1", "false", "0"}
      THEN "invalid skip-jwt value: " \o annotations[KeySkipJWTBearerTokens] ELSE "",
      IF Has(annotations, KeyUpstreamTLS)
            /\ annotations[KeyUpstreamTLS] \notin {UpstreamNoTLS, UpstreamTLSInsecure, UpstreamTLSSecure}
      THEN "invalid upstream-tls value: " \o annotations[KeyUpstreamTLS] ELSE "",
      BoolOverride(annotations, KeyPKCEEnabled).err,
      BoolOverride(annotations, KeyPassAccessToken).err,
      BoolOverride(annotations, KeySetXAuthRequest).err,
      BoolOverride(annotations, KeyPassAuthorizationHeader).err,
      BoolOverride(annotations, KeySkipProviderButton).err>>

FirstError(errs) ==
    IF \E i \in 1..Len(errs) : errs[i] # ""
    THEN errs[CHOOSE i \in 1..Len(errs) : errs[i] # "" /\ \A j \in 1..(i - 1) : errs[j] = ""]
    ELSE ""

(* the Config that Parse fills in for an enabled pod *)
ParsedConfig(annotations) ==
          [Enabled |-> TRUE,
           ConfigMapName |-> Get(annotations, KeyConfig),
           BlockDirectAccess |-> Get(annotations, KeyBlockDirectAccess) = "true",
           ProtectedPort |-> TrimSpace(Get(annotations, KeyProtectedPort)),
           IgnorePaths |-> ListOverride(annotations, KeyIgnorePaths),
           APIPaths |-> ListOverride(annotations, KeyAPIPaths),
           SkipJWTBearerTokens |-> SkipJWTValue(annotations) \in {"true", "1"},
           UpstreamTLS |-> IF Has(annotations, KeyUpstreamTLS) THEN annotations[KeyUpstreamTLS]
                           ELSE UpstreamNoTLS,
           PingPath |-> TrimSpace(Get(annotations, KeyPingPath)),
           ReadyPath |-> TrimSpace(Get(annotations, KeyReadyPath)),
           Overrides |->
             [ClientID |-> StringOverride(annotations, KeyClientID),
              ClientSecretRef |-> StringOverride(annotations, KeyClientSecretRef),
              CookieSecretRef |-> StringOverride(annotations, KeyCookieSecretRef),
              Scope |-> StringOverride(annotations, KeyScope),
              PKCEEnabled |-> BoolOverride(annotations, KeyPKCEEnabled).ptr,
              EmailDomains |-> ListOverride(annotations, KeyEmailDomains),
              EmailDomainsSet |-> Has(annotations, KeyEmailDomains),
              AllowedGroups |-> ListOverride(annotations, KeyAllowedGroups),
              AllowedGroupsSet |-> Has(annotations, KeyAllowedGroups),
              WhitelistDomains |-> ListOverride(annotations, KeyWhitelistDomains),
              WhitelistDomainsSet |-> Has(annotations, KeyWhitelistDomains),
              CookieName |-> StringOverride(annotations, KeyCookieName),
              CookieDomains |-> ListOverride(annotations, KeyCookieDomains),
              CookieDomainsSet |-> Has(annotations, KeyCookieDomains),
              RedirectURL |-> StringOverride(annotations, KeyRedirectURL),
              ExtraJWTIssuers |-> ListOverride(annotations, KeyExtraJWTIssuers),
              ExtraJWTIssuersSet |-> Has(annotations, KeyExtraJWTIssuers),
              PassAccessToken |-> BoolOverride(annotations, KeyPassAccessToken).ptr,
              SetXAuthRequest |-> BoolOverride(annotations, KeySetXAuthRequest).ptr,
              PassAuthorizationHeader |-> BoolOverride(annotations, KeyPassAuthorizationHeader).ptr,
              SkipProviderButton |-> BoolOverride(annotations, KeySkipProviderButton).ptr,
              Provider |-> StringOverride(annotations, KeyProvider),
              OIDCIssuerURL |-> StringOverride(annotations, KeyOIDCIssuerURL),
              OIDCGroupsClaim |-> StringOverride(annotations, KeyOIDCGroupsClaim),
              CookieSecure |-> BoolOverride(annotations, KeyCookieSecure).ptr,
              ProxyImage |-> StringOverride(annotations, KeyProxyImage),
              Upstream |-> StringOverride(annotations, KeyUpstream)]]

(* a faulty Parse: it validates the annotations before it looks at enabled *)
ParseValidatingFirst(annotations) ==
    IF FirstError(ParseErrors(annotations)) # ""
    THEN [cfg |-> Config, err |-> FirstError(ParseErrors(annotations)), ok |-> FALSE]
    ELSE IF Get(annotations, KeyEnabled) # "true"
    THEN [cfg |-> Config, err |-> "", ok |-> TRUE]
    ELSE [cfg |-> ParsedConfig(annotations), err |-> "", ok |-> TRUE]

(* AnnotationParser.Parse: [cfg, err, ok]; ok is FALSE when the returned Config is nil *)
Parse(annotations) ==
    IF Get(annotations, KeyEnabled) # "true"
    THEN [cfg |-> Config, err |-> "", ok |-> TRUE]
    ELSE IF FirstError(ParseErrors(annotations)) # ""
    THEN [cfg |-> Config, err |-> FirstError(ParseErrors(annotations)), ok |-> FALSE]
    ELSE [cfg |-> ParsedConfig(annotations), err |-> "", ok |-> TRUE]

-----------------------------------------------------------------------------
(* package config *)

CMKeyProvider == "provider"
CMKeyOIDCIssuerURL == "oidc-issuer-url"
CMKeyOIDCGroupsClaim == "oidc-groups-claim"
CMKeyScope == "scope"
CMKeyClientID == "client-id"
CMKeyClientSecretRef == "client-secret-ref"
CMKeyPKCEEnabled == "pkce-enabled"
CMKeyCookieSecretRef == "cookie-secret-ref"
CMKeyCookieDomains == "cookie-domains"
CMKeyCookieSecure == "cookie-secure"
CMKeyCookieName == "cookie-name"
CMKeyEmailDomains == "email-domains"
CMKeyAllowedGroups == "allowed-groups"
CMKeyWhitelistDomains == "whitelist-domains"
CMKeyRedirectURL == "redirect-url"
CMKeyExtraJWTIssuers == "extra-jwt-issuers"
CMKeyPassAccessToken == "pass-access-token"
CMKeySetXAuthRequest == "set-xauthrequest"
CMKeyPassAuthorizationHeader == "pass-authorization-header"
CMKeySkipProviderButton == "skip-provider-button"
CMKeyExtraArgs == "extra-args"
CMKeyProxyImage == "proxy-image"

DefaultProxyImage == "quay.io/oauth2-proxy/oauth2-proxy:v7.14.2"

NilSecretRef == [set |-> FALSE, Name |-> "", Key |-> ""]

(* the zero value of ProxyConfig *)
ProxyConfig ==
    [Name |-> "", Namespace |-> "", Provider |-> "", OIDCIssuerURL |-> "",
     OIDCGroupsClaim |-> "", Scope |-> "", ClientID |-> "", ClientSecretRef |-> NilSecretRef,
     PKCEEnabled |-> FALSE, CookieSecretRef |-> NilSecretRef, CookieDomains |-> <<>>,
     CookieSecure |-> FALSE, CookieName |-> "", EmailDomains |-> <<>>, AllowedGroups |-> <<>>,
     WhitelistDomains |-> <<>>, RedirectURL |-> "", ExtraJWTIssuers |-> <<>>,
     PassAccessToken |-> FALSE, SetXAuthRequest |-> FALSE, PassAuthorizationHeader |-> FALSE,
     SkipProviderButton |-> FALSE, ExtraArgs |-> <<>>, ProxyImage |-> "",
     ProxyResources |-> FALSE]

NewEmptyProxyConfig == [ProxyConfig EXCEPT !.ProxyImage = DefaultProxyImage, !.CookieSecure = TRUE]

parseSecretRef(ref, defaultKey) ==
    LET s == SplitN2(ref, ":")
    IN IF ref = "" THEN [ref |-> NilSecretRef, err |-> ""]
       ELSE IF Len(s) = 2
       THEN IF s[2] # "" THEN [ref |-> [set |-> TRUE, Name |-> s[1], Key |-> s[2]], err |-> ""]
            ELSE [ref |-> NilSecretRef, err |-> "secretRef does not match expected format"]
       ELSE [ref |-> [set |-> TRUE, Name |-> s[1], Key |-> defaultKey], err |-> ""]

parseBool(value, defaultValue) ==
    LET v == ToLower(value)
    IN IF v = "" THEN [b |-> defaultValue, err |-> ""]
       ELSE IF v \in {"true", "1"} THEN [b |-> TRUE, err |-> ""]
       ELSE IF v \in {"false", "0"} THEN [b |-> FALSE, err |-> ""]
       ELSE [b |-> FALSE, err |-> "invalid boolean value " \o value]

RECURSIVE TrimNonEmpty(_)
TrimNonEmpty(seq) ==
    IF seq = <<>> THEN <<>>
    ELSE (IF TrimSpace(Head(seq)) # "" THEN <<TrimSpace(Head(seq))>> ELSE <<>>)
         \o TrimNonEmpty(Tail(seq))

splitAndTrim(s, sep) == TrimNonEmpty(Split(s, sep))

(* a boolean key of the ConfigMap: parseBool of its value, the default when absent *)
CMBool(data, k, defaultValue) ==
    IF Has(data, k) THEN parseBool(data[k], defaultValue) ELSE [b |-> defaultValue, err |-> ""]

CMString(data, k) == IF Has(data, k) THEN TrimSpace(data[k]) ELSE ""

CMList(data, k, sep) == IF Has(data, k) THEN splitAndTrim(data[k], sep) ELSE <<>>

CMSecretRef(data, k, defaultKey) ==
    IF Has(data, k) THEN parseSecretRef(data[k], defaultKey) ELSE [ref |-> NilSecretRef, err |-> ""]

(* the errors parseConfigMap can return, in the order of its checks *)
parseConfigMapErrors(data) ==
    <<IF ~Has(data, CMKeyProvider) THEN "configmap missing required key provider" ELSE "",
      IF ~Has(data, CMKeyOIDCIssuerURL) /\ CMString(data, CMKeyProvider) = "oidc"
      THEN "provider type oidc requires oidc-issuer-url" ELSE "",
      IF ~Has(data, CMKeyClientID) THEN "configmap missing required key client-id" ELSE "",
      CMBool(data, CMKeyPKCEEnabled, FALSE).err,
      IF Has(data, CMKeyClientSecretRef) THEN CMSecretRef(data, CMKeyClientSecretRef, "client-secret").err
      ELSE IF ~CMBool(data, CMKeyPKCEEnabled, FALSE).b
      THEN "configmap missing key client-secret-ref when pkce-enabled is false" ELSE "",
      IF Has(data, CMKeyCookieSecretRef) THEN CMSecretRef(data, CMKeyCookieSecretRef, "cookie-secret").err
      ELSE "configmap missing key cookie-secret-ref",
      CMBool(data, CMKeyCookieSecure, TRUE).err,
      CMBool(data, CMKeySkipProviderButton, FALSE).err,
      CMBool(data, CMKeyPassAccessToken, FALSE).err,
      CMBool(data, CMKeySetXAuthRequest, FALSE).err,
      CMBool(data, CMKeyPassAuthorizationHeader, FALSE).err>>

parseConfigMap(data, name, namespace) ==
    IF FirstError(parseConfigMapErrors(data)) # ""
    THEN [cfg |-> ProxyConfig, err |-> FirstError(parseConfigMapErrors(data))]
    ELSE [err |-> "", cfg |->
          [Name |-> name, Namespace |-> namespace,
           Provider |-> CMString(data, CMKeyProvider),
           OIDCIssuerURL |-> CMString(data, CMKeyOIDCIssuerURL),
           OIDCGroupsClaim |-> IF Has(data, CMKeyOIDCGroupsClaim)
                               THEN TrimSpace(data[CMKeyOIDCGroupsClaim]) ELSE "groups",
           Scope |-> CMString(data, CMKeyScope),
           ClientID |-> CMString(data, CMKeyClientID),
           ClientSecretRef |-> CMSecretRef(data, CMKeyClientSecretRef, "client-secret").ref,
           PKCEEnabled |-> CMBool(data, CMKeyPKCEEnabled, FALSE).b,
           CookieSecretRef |-> CMSecretRef(data, CMKeyCookieSecretRef, "cookie-secret").ref,
           CookieDomains |-> CMList(data, CMKeyCookieDomains, ","),
           CookieSecure |-> CMBool(data, CMKeyCookieSecure, TRUE).b,
           CookieName |-> CMString(data, CMKeyCookieName),
           EmailDomains |-> CMList(data, CMKeyEmailDomains, ","),
           AllowedGroups |-> CMList(data, CMKeyAllowedGroups, ","),
           WhitelistDomains |-> CMList(data, CMKeyWhitelistDomains, ","),
           RedirectURL |-> CMString(data, CMKeyRedirectURL),
           ExtraJWTIssuers |-> CMList(data, CMKeyExtraJWTIssuers, ","),
           PassAccessToken |-> CMBool(data, CMKeyPassAccessToken, FALSE).b,
           SetXAuthRequest |-> CMBool(data, CMKeySetXAuthRequest, FALSE).b,
           PassAuthorizationHeader |-> CMBool(data, CMKeyPassAuthorizationHeader, FALSE).b,
           SkipProviderButton |-> CMBool(data, CMKeySkipProviderButton, FALSE).b,
           ExtraArgs |-> CMList(data, CMKeyExtraArgs, "\n"),
           ProxyImage |-> CMString(data, CMKeyProxyImage),
           ProxyResources |-> FALSE]]

(* ConfigMapLoader.Load against the ConfigMaps of the cluster, a function from  *)
(* <<namespace, name>> to the data of the ConfigMap                            *)
Load(configMaps, defaultNamespace, name, namespace) ==
    LET n == IF namespace = "" THEN defaultNamespace ELSE namespace
    IN IF <<n, name>> \notin DOMAIN configMaps
       THEN [cfg |-> ProxyConfig, err |-> "configmaps " \o name \o " not found"]
       ELSE parseConfigMap(configMaps[<<n, name>>], name, n)

(* a faulty mergeString: an override that is set to "" does not replace the base *)
mergeStringNonEmpty(base, override) ==
    IF override.set /\ override.v # "" THEN override.v ELSE base

mergeString(base, override) == IF override.set THEN override.v ELSE base

mergeBool(base, override) == IF override.set THEN override.v ELSE base

mergeStringSlice(base, override, overrideSet) == IF overrideSet THEN override ELSE base

mergeSecretRef(base, override, defaultKey) ==
    IF ~override.set THEN [ref |-> base, err |-> ""] ELSE parseSecretRef(override.v, defaultKey)

(* net/url.Parse as EffectiveConfig.Validate uses it: of the rules of net/url, *)
(* a control character and a leading colon (missing protocol scheme)           *)
URLParseFails(rawURL) ==
    \/ \E i \in 1..Len(rawURL) : Char(rawURL, i) \in {"\t", "\n", "\r"}
    \/ HasPrefix(rawURL, ":")

InvalidJWTIssuer(v) ==
    LET parts == Split(v, "=")
    IN Len(parts) # 2 \/ parts[1] = "" \/ parts[2] = ""

(* a faulty Validate: it does not ask for the cookie secret *)
ValidateWithoutCookieSecret(cfg) ==
    IF cfg.Provider = "" THEN "\nprovider unset"
    ELSE IF cfg.Provider = "oidc" /\ cfg.OIDCIssuerURL = ""
    THEN "\nprovider type oidc requires oidc-issuer-url"
    ELSE IF cfg.ClientID = "" THEN "\nclient-id unset"
    ELSE IF ~cfg.PKCEEnabled /\ ~cfg.ClientSecretRef.set
    THEN "\npkce must be enabled or client-secret-ref provided"
    ELSE IF cfg.RedirectURL # "" /\ URLParseFails(cfg.RedirectURL) THEN "\nredirect-url invalid"
    ELSE IF \E i \in 1..Len(cfg.ExtraJWTIssuers) : InvalidJWTIssuer(cfg.ExtraJWTIssuers[i])
    THEN "\ninvalid extra-jwt-issuer format"
    ELSE IF cfg.ProtectedPort = "" /\ cfg.Upstream = ""
    THEN "\nprotected-port or upstream must be set"
    ELSE IF cfg.UpstreamTLS \notin {UpstreamNoTLS, UpstreamTLSSecure, UpstreamTLSInsecure}
    THEN "\nupstream-tls invalid"
    ELSE ""

(* EffectiveConfig.Validate: the error, "" for nil *)
Validate(cfg) ==
    IF cfg.Provider = "" THEN "\nprovider unset"
    ELSE IF cfg.Provider = "oidc" /\ cfg.OIDCIssuerURL = ""
    THEN "\nprovider type oidc requires oidc-issuer-url"
    ELSE IF cfg.ClientID = "" THEN "\nclient-id unset"
    ELSE IF ~cfg.PKCEEnabled /\ ~cfg.ClientSecretRef.set
    THEN "\npkce must be enabled or client-secret-ref provided"
    ELSE IF ~cfg.CookieSecretRef.set THEN "\ncookie-secret-ref unset"
    ELSE IF cfg.RedirectURL # "" /\ URLParseFails(cfg.RedirectURL) THEN "\nredirect-url invalid"
    ELSE IF \E i \in 1..Len(cfg.ExtraJWTIssuers) : InvalidJWTIssuer(cfg.ExtraJWTIssuers[i])
    THEN "\ninvalid extra-jwt-issuer format"
    ELSE IF cfg.ProtectedPort = "" /\ cfg.Upstream = ""
    THEN "\nprotected-port or upstream must be set"
    ELSE IF cfg.UpstreamTLS \notin {UpstreamNoTLS, UpstreamTLSSecure, UpstreamTLSInsecure}
    THEN "\nupstream-tls invalid"
    ELSE ""

(* the EffectiveConfig that Merge fills in before it validates; PingPath and   *)
(* ReadyPath are read by the sidecar builder and never assigned by Merge       *)
MergedConfig(base, overrides) ==
    [ConfigMapName |-> base.Name,
     ConfigMapNamespace |-> base.Namespace,
     ProxyResources |-> base.ProxyResources,
     ExtraArgs |-> base.ExtraArgs,
     Provider |-> mergeString(base.Provider, overrides.Overrides.Provider),
     OIDCIssuerURL |-> mergeString(base.OIDCIssuerURL, overrides.Overrides.OIDCIssuerURL),
     OIDCGroupsClaim |-> mergeString(base.OIDCGroupsClaim, overrides.Overrides.OIDCGroupsClaim),
     CookieSecure |-> mergeBool(base.CookieSecure, overrides.Overrides.CookieSecure),
     ProxyImage |-> mergeString(base.ProxyImage, overrides.Overrides.ProxyImage),
     Upstream |-> mergeString("", overrides.Overrides.Upstream),
     ClientID |-> mergeString(base.ClientID, overrides.Overrides.ClientID),
     Scope |-> mergeString(base.Scope, overrides.Overrides.Scope),
     PKCEEnabled |-> mergeBool(base.PKCEEnabled, overrides.Overrides.PKCEEnabled),
     RedirectURL |-> mergeString(base.RedirectURL, overrides.Overrides.RedirectURL),
     PassAccessToken |-> mergeBool(base.PassAccessToken, overrides.Overrides.PassAccessToken),
     SetXAuthRequest |-> mergeBool(base.SetXAuthRequest, overrides.Overrides.SetXAuthRequest),
     PassAuthorizationHeader |->
        mergeBool(base.PassAuthorizationHeader, overrides.Overrides.PassAuthorizationHeader),
     SkipProviderButton |-> mergeBool(base.SkipProviderButton, overrides.Overrides.SkipProviderButton),
     CookieName |-> mergeString(base.CookieName, overrides.Overrides.CookieName),
     ClientSecretRef |->
        mergeSecretRef(base.ClientSecretRef, overrides.Overrides.ClientSecretRef, "client-secret").ref,
     CookieSecretRef |->
        mergeSecretRef(base.CookieSecretRef, overrides.Overrides.CookieSecretRef, "cookie-secret").ref,
     CookieDomains |-> mergeStringSlice(base.CookieDomains, overrides.Overrides.CookieDomains,
                                        overrides.Overrides.CookieDomainsSet),
     WhitelistDomains |-> mergeStringSlice(base.WhitelistDomains, overrides.Overrides.WhitelistDomains,
                                           overrides.Overrides.WhitelistDomainsSet),
     EmailDomains |-> mergeStringSlice(base.EmailDomains, overrides.Overrides.EmailDomains,
                                       overrides.Overrides.EmailDomainsSet),
     AllowedGroups |-> mergeStringSlice(base.AllowedGroups, overrides.Overrides.AllowedGroups,
                                        overrides.Overrides.AllowedGroupsSet),
     ExtraJWTIssuers |-> mergeStringSlice(base.ExtraJWTIssuers, overrides.Overrides.ExtraJWTIssuers,
                                          overrides.Overrides.ExtraJWTIssuersSet),
     BlockDirectAccess |-> overrides.BlockDirectAccess,
     ProtectedPort |-> overrides.ProtectedPort,
     IgnorePaths |-> overrides.IgnorePaths,
     APIPaths |-> overrides.APIPaths,
     SkipJWTBearerTokens |-> overrides.SkipJWTBearerTokens,
     UpstreamTLS |-> overrides.UpstreamTLS,
     PingPath |-> "",
     ReadyPath |-> ""]

(* the zero value of EffectiveConfig *)
EffectiveConfig ==
    [ConfigMapName |-> "", ConfigMapNamespace |-> "", ProxyResources |-> FALSE, ExtraArgs |-> <<>>,
     Provider |-> "", OIDCIssuerURL |-> "", OIDCGroupsClaim |-> "", CookieSecure |-> FALSE,
     ProxyImage |-> "", Upstream |-> "", ClientID |-> "", Scope |-> "", PKCEEnabled |-> FALSE,
     RedirectURL |-> "", PassAccessToken |-> FALSE, SetXAuthRequest |-> FALSE,
     PassAuthorizationHeader |-> FALSE, SkipProviderButton |-> FALSE, CookieName |-> "",
     ClientSecretRef |-> NilSecretRef, CookieSecretRef |-> NilSecretRef, CookieDomains |-> <<>>,
     WhitelistDomains |-> <<>>, EmailDomains |-> <<>>, AllowedGroups |-> <<>>,
     ExtraJWTIssuers |-> <<>>, BlockDirectAccess |-> FALSE, ProtectedPort |-> "",
     IgnorePaths |-> <<>>, APIPaths |-> <<>>, SkipJWTBearerTokens |-> FALSE, UpstreamTLS |-> "",
     PingPath |-> "", ReadyPath |-> ""]

(* Merge, lines 57-85: refErr is the first error of the two mergeSecretRef calls, *)
(* cfg the config Merge filled in                                                *)
MergeValidated(cfg, refErr) ==
    IF refErr # "" THEN [cfg |-> EffectiveConfig, err |-> refErr, ok |-> FALSE]
    ELSE IF Validate(cfg) # "" THEN [cfg |-> EffectiveConfig, err |-> Validate(cfg), ok |-> FALSE]
    ELSE [cfg |-> cfg, err |-> "", ok |-> TRUE]

(* a faulty Merge: an upstream annotation displaces the extra arguments of the base *)
MergeDroppingExtraArgs(base, overrides) ==
    MergeValidated(
        [MergedConfig(base, overrides)
            EXCEPT !.ExtraArgs = IF overrides.Overrides.Upstream.set THEN <<>> ELSE @],
        FirstError(<<mergeSecretRef(base.ClientSecretRef, overrides.Overrides.ClientSecretRef,
                                    "client-secret").err,
                     mergeSecretRef(base.CookieSecretRef, overrides.Overrides.CookieSecretRef,
                                    "cookie-secret").err>>))

(* ConfigMerger.Merge: [cfg, err, ok]; ok is FALSE when the returned config is nil *)
Merge(base, overrides) ==
    MergeValidated(
        MergedConfig(base, overrides),
        FirstError(<<mergeSecretRef(base.ClientSecretRef, overrides.Overrides.ClientSecretRef,
                                    "client-secret").err,
                     mergeSecretRef(base.CookieSecretRef, overrides.Overrides.CookieSecretRef,
                                    "cookie-secret").err>>))

-----------------------------------------------------------------------------
(* k8s.io/api/core/v1: the parts of a Pod that the webhook reads or writes *)

IntOrString(type, intVal, strVal) == [Type |-> type, IntVal |-> intVal, StrVal |-> strVal]
FromInt32(n) == IntOrString("Int", n, "")
FromString(str) == IntOrString("String", 0, str)

(* a nil *HTTPGetAction or *TCPSocketAction *)
NoHandler == [set |-> FALSE, Path |-> "", Port |-> FromInt32(0)]
Handler(path, port) == [set |-> TRUE, Path |-> path, Port |-> port]

(* a nil *Probe *)
NoProbe ==
    [set |-> FALSE, HTTPGet |-> NoHandler, TCPSocket |-> NoHandler,
     InitialDelaySeconds |-> 0, PeriodSeconds |-> 0, TimeoutSeconds |-> 0]

ContainerPort(name, containerPort, protocol) ==
    [Name |-> name, ContainerPort |-> containerPort, Protocol |-> protocol]

NoSecretKeyRef == [set |-> FALSE, Name |-> "", Key |-> ""]
EnvValue(name, value) == [Name |-> name, Value |-> value, SecretKeyRef |-> NoSecretKeyRef]
EnvSecret(name, ref) ==
    [Name |-> name, Value |-> "", SecretKeyRef |-> [set |-> TRUE, Name |-> ref.Name, Key |-> ref.Key]]

(* the zero value of Container *)
Container ==
    [Name |-> "", Image |-> "", Command |-> <<>>, Args |-> <<>>, Env |-> <<>>, Ports |-> <<>>,
     LivenessProbe |-> NoProbe, ReadinessProbe |-> NoProbe, StartupProbe |-> NoProbe,
     Capabilities |-> <<>>]

(* a nil *Container *)
NilContainer == [set |-> FALSE, c |-> Container]

-----------------------------------------------------------------------------
(* package mutation: sidecar.go, initcontainer.go *)

SidecarContainerName == "oauth2-proxy"
InjectedAnnotation == "spacemule.net/oauth2-proxy.injected"
KnativeQueueProxyContainer == "queue-proxy"
KnativeUserPortEnv == "USER_PORT"

(* the zero value of PortMapping *)
PortMapping == [ProxyPort |-> 0, TLSMode |-> ""]

(* index of the first element of seq that satisfies Test, 0 if none *)
FirstIndex(seq, Test(_)) ==
    IF \E i \in 1..Len(seq) : Test(seq[i])
    THEN CHOOSE i \in 1..Len(seq) : Test(seq[i]) /\ \A j \in 1..(i - 1) : ~Test(seq[j])
    ELSE 0

CalculatePortMapping(containerPorts, cfg) ==
    LET NameMatches(p) == p.Name = cfg.ProtectedPort
        NumberMatches(p) == p.ContainerPort = AtoiInt32(cfg.ProtectedPort)
        notFound == [mapping |-> PortMapping,
                     err |-> "matching port name " \o cfg.ProtectedPort \o " not found"]
    IN IF IsNamedPort(cfg.ProtectedPort)
       THEN IF FirstIndex(containerPorts, NameMatches) # 0
            THEN [mapping |-> [ProxyPort |-> containerPorts[FirstIndex(containerPorts, NameMatches)].ContainerPort,
                               TLSMode |-> cfg.UpstreamTLS],
                  err |-> ""]
            ELSE notFound
       ELSE IF AtoiErr(cfg.ProtectedPort)
            THEN [mapping |-> PortMapping, err |-> AtoiError(cfg.ProtectedPort)]
            ELSE IF FirstIndex(containerPorts, NumberMatches) # 0
            THEN [mapping |-> [ProxyPort |-> containerPorts[FirstIndex(containerPorts, NumberMatches)].ContainerPort,
                               TLSMode |-> cfg.UpstreamTLS],
                  err |-> ""]
            ELSE notFound

RECURSIVE PrefixEach(_, _)
PrefixEach(prefix, seq) ==
    IF seq = <<>> THEN <<>> ELSE <<prefix \o Head(seq)>> \o PrefixEach(prefix, Tail(seq))

If(cond, seq) == IF cond THEN seq ELSE <<>>

(* a faulty upstream block: the explicit upstream is used only when no port is protected *)
upstreamArgsPortFirst(cfg, portMapping) ==
    IF cfg.ProtectedPort # ""
    THEN <<"--upstream=http://127.0.0.1:" \o Itoa(portMapping.ProxyPort)>>
         \o If(cfg.UpstreamTLS = UpstreamTLSInsecure, <<"--ssl-upstream-insecure-skip-verify=true">>)
    ELSE <<"--upstream=" \o cfg.Upstream>>
         \o If(cfg.UpstreamTLS = UpstreamTLSInsecure, <<"--ssl-upstream-insecure-skip-verify=true">>)

(* the --upstream block of buildArgs *)
upstreamArgs(cfg, portMapping) ==
    IF cfg.Upstream = ""
    THEN IF cfg.UpstreamTLS = UpstreamNoTLS
         THEN <<"--upstream=http://127.0.0.1:" \o Itoa(portMapping.ProxyPort)>>
         ELSE IF cfg.UpstreamTLS = UpstreamTLSSecure
         THEN <<"--upstream=https://127.0.0.1:" \o Itoa(portMapping.ProxyPort)>>
         ELSE IF cfg.UpstreamTLS = UpstreamTLSInsecure
         THEN <<"--upstream=https://127.0.0.1:" \o Itoa(portMapping.ProxyPort),
                "--ssl-upstream-insecure-skip-verify=true">>
         ELSE <<>>
    ELSE <<"--upstream=" \o cfg.Upstream>>
         \o If(cfg.UpstreamTLS = UpstreamTLSInsecure, <<"--ssl-upstream-insecure-skip-verify=true">>)

(* buildArgs without the trailing cfg.ExtraArgs *)
builderArgs(cfg, portMapping) ==
    <<"--provider=" \o cfg.Provider,
      "--oidc-issuer-url=" \o cfg.OIDCIssuerURL,
      "--client-id=" \o cfg.ClientID,
      "--http-address=0.0.0.0:4180">>
    \o upstreamArgs(cfg, portMapping)
    \o If(~cfg.CookieSecure, <<"--cookie-secure=false">>)
    \o If(cfg.SkipProviderButton, <<"--skip-provider-button=true">>)
    \o If(cfg.SkipJWTBearerTokens, <<"--skip-jwt-bearer-tokens=true">>)
    \o If(cfg.PassAccessToken, <<"--pass-access-token=true">>)
    \o If(cfg.SetXAuthRequest, <<"--set-xauthrequest=true">>)
    \o If(cfg.PassAuthorizationHeader, <<"--pass-authorization-header=true">>)
    \o If(cfg.PKCEEnabled, <<"--code-challenge-method=S256", "--client-secret-file=/dev/null">>)
    \o If(cfg.Scope # "", <<"--scope=" \o cfg.Scope>>)
    \o If(cfg.OIDCGroupsClaim # "", <<"--oidc-groups-claim=" \o cfg.OIDCGroupsClaim>>)
    \o If(cfg.RedirectURL # "", <<"--redirect-url=" \o cfg.RedirectURL>>)
    \o If(cfg.CookieName # "", <<"--cookie-name=" \o cfg.CookieName>>)
    \o If(cfg.PingPath # "", <<"--ping-path=" \o cfg.PingPath>>)
    \o If(cfg.ReadyPath # "", <<"--ready-path=" \o cfg.ReadyPath>>)
    \o If(Len(cfg.ExtraJWTIssuers) > 0, <<"--extra-jwt-issuers=" \o Join(cfg.ExtraJWTIssuers, ",")>>)
    \o PrefixEach("--email-domain=", cfg.EmailDomains)
    \o PrefixEach("--allowed-group=", cfg.AllowedGroups)
    \o PrefixEach("--skip-auth-route=", cfg.IgnorePaths)
    \o PrefixEach("--api-route=", cfg.APIPaths)
    \o PrefixEach("--cookie-domain=", cfg.CookieDomains)
    \o PrefixEach("--whitelist-domain=", cfg.WhitelistDomains)

(* a faulty buildArgs: the configured extra arguments come first *)
buildArgsExtraFirst(cfg, portMapping) == cfg.ExtraArgs \o builderArgs(cfg, portMapping)

buildArgs(cfg, portMapping) == builderArgs(cfg, portMapping) \o cfg.ExtraArgs

buildEnvVars(cfg) ==
    <<EnvSecret("OAUTH2_PROXY_COOKIE_SECRET", cfg.CookieSecretRef)>>
    \o If(cfg.ClientSecretRef.set, <<EnvSecret("OAUTH2_PROXY_CLIENT_SECRET", cfg.ClientSecretRef)>>)

buildProbe(port, path) ==
    [set |-> TRUE, HTTPGet |-> Handler(path, FromInt32(port)), TCPSocket |-> NoHandler,
     InitialDelaySeconds |-> 5, PeriodSeconds |-> 10, TimeoutSeconds |-> 2]

(* a faulty Build: the port of the sidecar never takes over the protected name *)
SidecarBuildGenericPort(cfg, portMapping) ==
    [Container EXCEPT
        !.Name = "oauth2-proxy",
        !.Image = cfg.ProxyImage,
        !.Args = buildArgs(cfg, portMapping),
        !.Env = buildEnvVars(cfg),
        !.Ports = <<ContainerPort("oauth2-proxy", 4180, "TCP")>>,
        !.LivenessProbe = buildProbe(4180, IF cfg.PingPath # "" THEN cfg.PingPath ELSE "/ping"),
        !.ReadinessProbe = buildProbe(4180, IF cfg.ReadyPath # "" THEN cfg.ReadyPath ELSE "/ready")]

(* OAuth2ProxySidecarBuilder.Build: the container; the volumes are always empty *)
SidecarBuild(cfg, portMapping) ==
    [Container EXCEPT
        !.Name = "oauth2-proxy",
        !.Image = cfg.ProxyImage,
        !.Args = buildArgs(cfg, portMapping),
        !.Env = buildEnvVars(cfg),
        !.Ports = <<ContainerPort(IF IsNamedPort(cfg.ProtectedPort) THEN cfg.ProtectedPort
                                  ELSE "oauth2-proxy", 4180, "TCP")>>,
        !.LivenessProbe = buildProbe(4180, IF cfg.PingPath # "" THEN cfg.PingPath ELSE "/ping"),
        !.ReadinessProbe = buildProbe(4180, IF cfg.ReadyPath # "" THEN cfg.ReadyPath ELSE "/ready")]

SidecarVolumes == <<>>

buildIPTablesScript(ports) ==
    "#!/bin/sh\nset -e\n"
    \o Join([i \in 1..Len(ports) |->
                "iptables -A INPUT -p tcp --dport " \o Itoa(ports[i]) \o " -s 127.0.0.1 -j ACCEPT\n"
                \o "iptables -A INPUT -p tcp --dport " \o Itoa(ports[i]) \o " -j DROP\n"], "")

(* IPTablesInitContainerBuilder.Build: a *Container, nil unless BlockDirectAccess *)
InitContainerBuild(initImage, cfg, portMapping) ==
    IF ~cfg.BlockDirectAccess THEN NilContainer
    ELSE [set |-> TRUE,
          c |-> [Container EXCEPT
                    !.Name = "oauth2-proxy-iptables-init",
                    !.Image = initImage,
                    !.Command = <<"/bin/sh", "-c", buildIPTablesScript(<<portMapping.ProxyPort>>)>>,
                    !.Capabilities = <<"NET_ADMIN">>]]

-----------------------------------------------------------------------------
(* encoding/json: a JSON document is a tree of tagged nodes *)

JNull == [t |-> "null"]
JString(str) == [t |-> "string", s |-> str]
JNumber(n) == [t |-> "number", n |-> n]
JArray(seq) == [t |-> "array", a |-> seq]
JObject(members) == [t |-> "object", m |-> members]

(* an object from a sequence of <<key, node, present>>; a member that the    *)
(* struct tag marks omitempty is present only for a non-empty Go value       *)
Members(fields) ==
    LET keys == {fields[i][1] : i \in {j \in 1..Len(fields) : fields[j][3]}}
    IN JObject([k \in keys |-> fields[CHOOSE i \in 1..Len(fields) : fields[i][1] = k][2]])

JStrings(seq) == JArray([i \in 1..Len(seq) |-> JString(seq[i])])

JStringMap(m) == JObject([k \in DOMAIN m |-> JString(m[k])])

IntOrStringJSON(v) == IF v.Type = "Int" THEN JNumber(v.IntVal) ELSE JString(v.StrVal)

HandlerJSON(h) ==
    Members(<<<<"path", JString(h.Path), h.Path # "">>, <<"port", IntOrStringJSON(h.Port), TRUE>>>>)

ProbeJSON(p) ==
    Members(<<<<"httpGet", HandlerJSON(p.HTTPGet), p.HTTPGet.set>>,
              <<"tcpSocket", HandlerJSON(p.TCPSocket), p.TCPSocket.set>>,
              <<"initialDelaySeconds", JNumber(p.InitialDelaySeconds), p.InitialDelaySeconds # 0>>,
              <<"periodSeconds", JNumber(p.PeriodSeconds), p.PeriodSeconds # 0>>,
              <<"timeoutSeconds", JNumber(p.TimeoutSeconds), p.TimeoutSeconds # 0>>>>)

ContainerPortJSON(p) ==
    Members(<<<<"name", JString(p.Name), p.Name # "">>,
              <<"containerPort", JNumber(p.ContainerPort), TRUE>>,
              <<"protocol", JString(p.Protocol), p.Protocol # "">>>>)

EnvVarJSON(e) ==
    Members(<<<<"name", JString(e.Name), TRUE>>,
              <<"value", JString(e.Value), e.Value # "">>,
              <<"valueFrom",
                Members(<<<<"secretKeyRef",
                            Members(<<<<"name", JString(e.SecretKeyRef.Name), e.SecretKeyRef.Name # "">>,
                                      <<"key", JString(e.SecretKeyRef.Key), TRUE>>>>),
                            TRUE>>>>),
                e.SecretKeyRef.set>>>>)

ContainerJSON(c) ==
    Members(<<<<"name", JString(c.Name), TRUE>>,
              <<"image", JString(c.Image), c.Image # "">>,
              <<"command", JStrings(c.Command), c.Command # <<>> >>,
              <<"args", JStrings(c.Args), c.Args # <<>> >>,
              <<"ports", JArray([i \in 1..Len(c.Ports) |-> ContainerPortJSON(c.Ports[i])]),
                c.Ports # <<>> >>,
              <<"env", JArray([i \in 1..Len(c.Env) |-> EnvVarJSON(c.Env[i])]), c.Env # <<>> >>,
              <<"livenessProbe", ProbeJSON(c.LivenessProbe), c.LivenessProbe.set>>,
              <<"readinessProbe", ProbeJSON(c.ReadinessProbe), c.ReadinessProbe.set>>,
              <<"startupProbe", ProbeJSON(c.StartupProbe), c.StartupProbe.set>>,
              <<"securityContext",
                Members(<<<<"capabilities", Members(<<<<"add", JStrings(c.Capabilities), TRUE>>>>), TRUE>>>>),
                c.Capabilities # <<>> >>>>)

(* json.Marshal of a *Container held in an interface{}: null for the nil pointer *)
ContainerPtrJSON(ptr) == IF ptr.set THEN ContainerJSON(ptr.c) ELSE JNull

JContainers(seq) == JArray([i \in 1..Len(seq) |-> ContainerJSON(seq[i])])

(* json.Marshal of a Pod as the API server holds it *)
PodJSON(p) ==
    Members(<<
      <<"metadata",
        Members(<<<<"namespace", JString(p.Namespace), p.Namespace # "">>,
                  <<"annotations", JStringMap(p.Annotations), DOMAIN p.Annotations # {}>>,
                  <<"labels", JStringMap(p.Labels), DOMAIN p.Labels # {}>>>>),
        TRUE>>,
      <<"spec",
        Members(<<<<"volumes", JStrings(p.Spec.Volumes), p.Spec.Volumes # <<>> >>,
                  <<"initContainers", JContainers(p.Spec.InitContainers),
                    p.Spec.InitContainers # <<>> >>,
                  <<"containers", JContainers(p.Spec.Containers), TRUE>>>>),
        TRUE>>>>)

(* json.Unmarshal into the typed Pod: an absent or null member leaves the zero value *)
HasMember(node, k) == node.t = "object" /\ k \in DOMAIN node.m /\ node.m[k].t # "null"

StringMember(node, k) == IF HasMember(node, k) THEN node.m[k].s ELSE ""
NumberMember(node, k) == IF HasMember(node, k) THEN node.m[k].n ELSE 0
ArrayMember(node, k) == IF HasMember(node, k) THEN node.m[k].a ELSE <<>>
ObjectMember(node, k) == IF HasMember(node, k) THEN node.m[k] ELSE JObject(<<>>)
StringsMember(node, k) == [i \in 1..Len(ArrayMember(node, k)) |-> ArrayMember(node, k)[i].s]
StringMapMember(node, k) ==
    IF HasMember(node, k) THEN [key \in DOMAIN node.m[k].m |-> node.m[k].m[key].s] ELSE <<>>

IntOrStringFromJSON(node) == IF node.t = "number" THEN FromInt32(node.n) ELSE FromString(node.s)

HandlerFromJSON(node, k) ==
    IF HasMember(node, k)
    THEN Handler(StringMember(node.m[k], "path"),
                 IF HasMember(node.m[k], "port") THEN IntOrStringFromJSON(node.m[k].m["port"])
                 ELSE FromInt32(0))
    ELSE NoHandler

ProbeFromJSON(node, k) ==
    IF HasMember(node, k)
    THEN [set |-> TRUE,
          HTTPGet |-> HandlerFromJSON(node.m[k], "httpGet"),
          TCPSocket |-> HandlerFromJSON(node.m[k], "tcpSocket"),
          InitialDelaySeconds |-> NumberMember(node.m[k], "initialDelaySeconds"),
          PeriodSeconds |-> NumberMember(node.m[k], "periodSeconds"),
          TimeoutSeconds |-> NumberMember(node.m[k], "timeoutSeconds")]
    ELSE NoProbe

ContainerPortFromJSON(node) ==
    ContainerPort(StringMember(node, "name"), NumberMember(node, "containerPort"),
                  StringMember(node, "protocol"))

EnvVarFromJSON(node) ==
    LET ref == ObjectMember(ObjectMember(node, "valueFrom"), "secretKeyRef")
    IN [Name |-> StringMember(node, "name"), Value |-> StringMember(node, "value"),
        SecretKeyRef |-> [set |-> HasMember(ObjectMember(node, "valueFrom"), "secretKeyRef"),
                          Name |-> StringMember(ref, "name"), Key |-> StringMember(ref, "key")]]

ContainerFromJSON(node) ==
    [Name |-> StringMember(node, "name"),
     Image |-> StringMember(node, "image"),
     Command |-> StringsMember(node, "command"),
     Args |-> StringsMember(node, "args"),
     Env |-> [i \in 1..Len(ArrayMember(node, "env")) |-> EnvVarFromJSON(ArrayMember(node, "env")[i])],
     Ports |-> [i \in 1..Len(ArrayMember(node, "ports")) |->
                    ContainerPortFromJSON(ArrayMember(node, "ports")[i])],
     LivenessProbe |-> ProbeFromJSON(node, "livenessProbe"),
     ReadinessProbe |-> ProbeFromJSON(node, "readinessProbe"),
     StartupProbe |-> ProbeFromJSON(node, "startupProbe"),
     Capabilities |->
        StringsMember(ObjectMember(ObjectMember(node, "securityContext"), "capabilities"), "add")]

ContainersFromJSON(node, k) ==
    [i \in 1..Len(ArrayMember(node, k)) |-> ContainerFromJSON(ArrayMember(node, k)[i])]

PodFromJSON(doc) ==
    LET metadata == ObjectMember(doc, "metadata")
        spec == ObjectMember(doc, "spec")
    IN [Namespace |-> StringMember(metadata, "namespace"),
        Annotations |-> StringMapMember(metadata, "annotations"),
        Labels |-> StringMapMember(metadata, "labels"),
        Spec |-> [Volumes |-> StringsMember(spec, "volumes"),
                  InitContainers |-> ContainersFromJSON(spec, "initContainers"),
                  Containers |-> ContainersFromJSON(spec, "containers")]]

-----------------------------------------------------------------------------
(* RFC 6901 JSON Pointer and RFC 6902 JSON Patch, as the API server applies them *)

RECURSIVE Unescape(_)
Unescape(token) ==
    IF token = "" THEN ""
    ELSE IF HasPrefix(token, "~1") THEN "/" \o Unescape(SubSeq(token, 3, Len(token)))
    ELSE IF HasPrefix(token, "~0") THEN "~" \o Unescape(SubSeq(token, 3, Len(token)))
    ELSE Char(token, 1) \o Unescape(SubSeq(token, 2, Len(token)))

(* the reference tokens of a pointer; the pointer "" addresses the whole document *)
PointerTokens(path) ==
    LET raw == Tail(Split(path, "/")) IN [i \in 1..Len(raw) |-> Unescape(raw[i])]

IsArrayIndex(token) == token # "" /\ AllDigits(token) /\ (token = "0" \/ Char(token, 1) # "0")

InsertAt(seq, i, x) == SubSeq(seq, 1, i - 1) \o <<x>> \o SubSeq(seq, i, Len(seq))
RemoveAt(seq, i) == SubSeq(seq, 1, i - 1) \o SubSeq(seq, i + 1, Len(seq))

Failed == [ok |-> FALSE, doc |-> JNull]
Done(node) == [ok |-> TRUE, doc |-> node]

(* the operation at its target location: token names a member or an element of node *)
ApplyAtTarget(node, token, op, value) ==
    IF node.t = "object"
    THEN IF op = "add"
         THEN Done(JObject([k \in DOMAIN node.m \cup {token} |-> IF k = token THEN value ELSE node.m[k]]))
         ELSE IF token \notin DOMAIN node.m THEN Failed
         ELSE IF op = "replace"
         THEN Done(JObject([k \in DOMAIN node.m |-> IF k = token THEN value ELSE node.m[k]]))
         ELSE Done(JObject([k \in DOMAIN node.m \ {token} |-> node.m[k]]))
    ELSE IF node.t = "array"
    THEN IF op = "add" /\ token = "-" THEN Done(JArray(Append(node.a, value)))
         ELSE IF ~IsArrayIndex(token) \/ Len(token) > 9 THEN Failed
         ELSE LET i == AtoiInt32(token) + 1
              IN IF op = "add"
                 THEN IF i <= Len(node.a) + 1 THEN Done(JArray(InsertAt(node.a, i, value))) ELSE Failed
                 ELSE IF i > Len(node.a) THEN Failed
                 ELSE IF op = "replace"
                 THEN Done(JArray([j \in 1..Len(node.a) |-> IF j = i THEN value ELSE node.a[j]]))
                 ELSE Done(JArray(RemoveAt(node.a, i)))
    ELSE Failed

RECURSIVE ApplyAt(_, _, _, _)
ApplyAt(node, tokens, op, value) ==
    IF Len(tokens) = 1 THEN ApplyAtTarget(node, tokens[1], op, value)
    ELSE IF node.t = "object"
    THEN IF tokens[1] \notin DOMAIN node.m THEN Failed
         ELSE LET sub == ApplyAt(node.m[tokens[1]], Tail(tokens), op, value)
              IN IF ~sub.ok THEN Failed
                 ELSE Done(JObject([k \in DOMAIN node.m |-> IF k = tokens[1] THEN sub.doc ELSE node.m[k]]))
    ELSE IF node.t = "array"
    THEN IF ~IsArrayIndex(tokens[1]) \/ Len(tokens[1]) > 9 THEN Failed
         ELSE LET i == AtoiInt32(tokens[1]) + 1
              IN IF i > Len(node.a) THEN Failed
                 ELSE LET sub == ApplyAt(node.a[i], Tail(tokens), op, value)
                      IN IF ~sub.ok THEN Failed
                         ELSE Done(JArray([j \in 1..Len(node.a) |-> IF j = i THEN sub.doc ELSE node.a[j]]))
    ELSE Failed

(* one operation of a patch: add, remove or replace *)
ApplyOperation(doc, operation) ==
    LET tokens == PointerTokens(operation.Path)
    IN IF operation.Op \notin {"add", "remove", "replace"} THEN Failed
       ELSE IF operation.Op # "remove" /\ operation.Value.t = "absent" THEN Failed
       ELSE IF tokens = <<>>
       THEN IF operation.Op = "remove" THEN Failed ELSE Done(operation.Value)
       ELSE ApplyAt(doc, tokens, operation.Op, operation.Value)

(* the operations in order; the patch fails as a whole when one operation fails *)
RECURSIVE ApplyPatch(_, _)
ApplyPatch(doc, operations) ==
    IF operations = <<>> THEN Done(doc)
    ELSE LET first == ApplyOperation(doc, Head(operations))
         IN IF ~first.ok THEN Failed ELSE ApplyPatch(first.doc, Tail(operations))

-----------------------------------------------------------------------------
(* package mutation: patch.go, knative.go *)

(* the Value of an operation that has none: the nil interface, which omitempty drops *)
NoValue == [t |-> "absent"]

PatchOperation(op, path, value) == [Op |-> op, Path |-> path, Value |-> value]

NewPatchBuilder(hasAnnotations, hasLabels, hasVolumes) ==
    [operations |-> <<>>, hasAnnotations |-> hasAnnotations, hasLabels |-> hasLabels,
     hasVolumes |-> hasVolumes]

escapeJSONPointer(s) == ReplaceAll(ReplaceAll(s, "~", "~0"), "/", "~1")

(* append operations to the builder b *)
Appended(b, ops) == [b EXCEPT !.operations = @ \o ops]

AddContainer(b, container) ==
    Appended(b, <<PatchOperation("add", "/spec/containers/-", container)>>)

AddInitContainer(b, container) ==
    Appended(b, <<PatchOperation("add", "/spec/initContainers/-", container)>>)

AddVolume(b, volume) ==
    [Appended(b, If(~b.hasVolumes, <<PatchOperation("add", "/spec/volumes", JArray(<<>>))>>)
                 \o <<PatchOperation("add", "/spec/volumes/-", volume)>>)
     EXCEPT !.hasVolumes = TRUE]

(* a faulty AddAnnotation: the hint is not flipped once the parent is created *)
AddAnnotationKeepingHint(b, key, value) ==
    Appended(b, If(~b.hasAnnotations,
                   <<PatchOperation("add", "/metadata/annotations", JObject(<<>>))>>)
                \o <<PatchOperation("add", "/metadata/annotations/" \o escapeJSONPointer(key),
                                    JString(value))>>)

AddAnnotation(b, key, value) ==
    [Appended(b, If(~b.hasAnnotations,
                    <<PatchOperation("add", "/metadata/annotations", JObject(<<>>))>>)
                 \o <<PatchOperation("add", "/metadata/annotations/" \o escapeJSONPointer(key),
                                     JString(value))>>)
     EXCEPT !.hasAnnotations = TRUE]

AddLabel(b, key, value) ==
    [Appended(b, If(~b.hasLabels, <<PatchOperation("add", "/metadata/labels", JObject(<<>>))>>)
                 \o <<PatchOperation("add", "/metadata/labels/" \o escapeJSONPointer(key),
                                     JString(value))>>)
     EXCEPT !.hasLabels = TRUE]

(* containerIndex, portIndex and envIndex count from 0, as in the source *)
RemovePort(b, containerIndex, portIndex) ==
    Appended(b, <<PatchOperation("remove",
                    "/spec/containers/" \o Itoa(containerIndex) \o "/ports/" \o Itoa(portIndex),
                    NoValue)>>)

ReplaceProbePort(b, containerIndex, probeType, handlerType, port) ==
    Appended(b, <<PatchOperation("replace",
                    "/spec/containers/" \o Itoa(containerIndex) \o "/" \o probeType \o "/"
                        \o handlerType \o "/port",
                    JNumber(port))>>)

ReplaceEnvVarValue(b, containerIndex, envIndex, newValue) ==
    Appended(b, <<PatchOperation("replace",
                    "/spec/containers/" \o Itoa(containerIndex) \o "/env/" \o Itoa(envIndex)
                        \o "/value",
                    JString(newValue))>>)

Build(b) == b.operations

FindQueueProxyIndex(p) ==
    LET IsQueueProxy(c) == c.Name = "queue-proxy"
    IN [index |-> FirstIndex(p.Spec.Containers, IsQueueProxy) - 1,
        found |-> FirstIndex(p.Spec.Containers, IsQueueProxy) # 0]

(* a faulty IsKnativePod: only the labels are looked at *)
IsKnativePodByLabel(p) ==
    \/ "serving.knative.dev/revision" \in DOMAIN p.Labels
    \/ "serving.knative.dev/service" \in DOMAIN p.Labels

IsKnativePod(p) ==
    \/ "serving.knative.dev/revision" \in DOMAIN p.Labels
    \/ "serving.knative.dev/service" \in DOMAIN p.Labels
    \/ FindQueueProxyIndex(p).found

FindUserPortEnvIndex(p, queueProxyIndex) ==
    LET IsUserPort(env) == env.Name = "USER_PORT"
    IN FirstIndex(p.Spec.Containers[queueProxyIndex + 1].Env, IsUserPort) - 1

-----------------------------------------------------------------------------
(* package mutation: mutator.go *)

RECURSIVE Flatten(_)
Flatten(seqs) == IF seqs = <<>> THEN <<>> ELSE Head(seqs) \o Flatten(Tail(seqs))

collectContainerPorts(p) ==
    Flatten([i \in 1..Len(p.Spec.Containers) |-> p.Spec.Containers[i].Ports])

(* [i, j, found]: the first container, and its first port, with the name portName *)
findProtectedPort(p, portName) ==
    LET Named(port) == port.Name = portName
        Exposes(c) == FirstIndex(c.Ports, Named) # 0
        i == FirstIndex(p.Spec.Containers, Exposes)
    IN IF i = 0 THEN [i |-> 0, j |-> 0, found |-> FALSE]
       ELSE [i |-> i - 1, j |-> FirstIndex(p.Spec.Containers[i].Ports, Named) - 1, found |-> TRUE]

probeRewrite(containerIndex, probeType, handlerType, newPort) ==
    [ContainerIndex |-> containerIndex, ProbeType |-> probeType, HandlerType |-> handlerType,
     NewPort |-> newPort]

(* the rewrites of one probe: at most one *)
checkProbe(probe, probeType, containerIndex, protectedPortName, originalPortNumber) ==
    IF ~probe.set THEN <<>>
    ELSE IF probe.HTTPGet.set /\ probe.HTTPGet.Port.Type = "String"
            /\ probe.HTTPGet.Port.StrVal = protectedPortName
    THEN <<probeRewrite(containerIndex, probeType, "httpGet", originalPortNumber)>>
    ELSE IF probe.TCPSocket.set /\ probe.TCPSocket.Port.Type = "String"
            /\ probe.TCPSocket.Port.StrVal = protectedPortName
    THEN <<probeRewrite(containerIndex, probeType, "tcpSocket", originalPortNumber)>>
    ELSE <<>>

rewriteProbePortNames(p, protectedPortName, originalPortNumber) ==
    Flatten([i \in 1..Len(p.Spec.Containers) |->
        checkProbe(p.Spec.Containers[i].LivenessProbe, "livenessProbe", i - 1,
                   protectedPortName, originalPortNumber)
        \o checkProbe(p.Spec.Containers[i].ReadinessProbe, "readinessProbe", i - 1,
                      protectedPortName, originalPortNumber)
        \o checkProbe(p.Spec.Containers[i].StartupProbe, "startupProbe", i - 1,
                      protectedPortName, originalPortNumber)])

(* a faulty isAlreadyInjected: the sidecar is looked for among the init containers *)
isAlreadyInjectedInit(p) ==
    /\ InjectedAnnotation \in DOMAIN p.Annotations
    /\ \E i \in 1..Len(p.Spec.InitContainers) :
            p.Spec.InitContainers[i].Name = SidecarContainerName

isAlreadyInjected(p) ==
    /\ InjectedAnnotation \in DOMAIN p.Annotations
    /\ \E i \in 1..Len(p.Spec.Containers) : p.Spec.Containers[i].Name = SidecarContainerName

hasExistingAnnotations(p) == DOMAIN p.Annotations # {}
hasExistingLabels(p) == DOMAIN p.Labels # {}
hasExistingVolumes(p) == Len(p.Spec.Volumes) > 0

checkProbeForBlockedAccess(probe, probeType, containerIndex, protectedPortName, protectedPortNumber, oauth2ProxyPort) ==
    LET handlerType == IF probe.HTTPGet.set THEN "httpGet" ELSE "tcpSocket"
        port == IF probe.HTTPGet.set THEN probe.HTTPGet.Port ELSE probe.TCPSocket.Port
    IN IF ~probe.set \/ (~probe.HTTPGet.set /\ ~probe.TCPSocket.set) THEN <<>>
       ELSE IF \/ (port.Type = "String" /\ port.StrVal = protectedPortName)
               \/ (port.Type = "Int" /\ port.IntVal = protectedPortNumber)
       THEN <<probeRewrite(containerIndex, probeType, handlerType, oauth2ProxyPort)>>
       ELSE <<>>

(* [rewrites, err]: strconv.Atoi fails on a protectedPort that is empty or too large *)
rewriteProbesForBlockedAccess(p, protectedPort, mapping) ==
    LET port == IF IsNamedPort(protectedPort) THEN mapping.ProxyPort
                ELSE AtoiInt32(protectedPort)
    IN IF ~IsNamedPort(protectedPort) /\ AtoiErr(protectedPort)
       THEN [rewrites |-> <<>>, err |-> AtoiError(protectedPort)]
       ELSE [err |-> "", rewrites |->
             Flatten([i \in 1..Len(p.Spec.Containers) |->
                checkProbeForBlockedAccess(p.Spec.Containers[i].LivenessProbe, "livenessProbe",
                                           i - 1, protectedPort, port, 4180)
                \o checkProbeForBlockedAccess(p.Spec.Containers[i].ReadinessProbe,
                                              "readinessProbe", i - 1, protectedPort, port, 4180)
                \o checkProbeForBlockedAccess(p.Spec.Containers[i].StartupProbe, "startupProbe",
                                              i - 1, protectedPort, port, 4180)])]

(* the operations patchKnativeQueueProxy appends, and its error *)
patchKnativeQueueProxy(p, b) ==
    LET c == FindQueueProxyIndex(p)
    IN IF ~IsKnativePod(p) THEN [b |-> b, err |-> ""]
       ELSE IF ~c.found THEN [b |-> b, err |-> "unexpected state: queue-proxy pod not found"]
       ELSE IF FindUserPortEnvIndex(p, c.index) = -1
       THEN [b |-> b, err |-> "unexpected state: USER_PORT env not found"]
       ELSE [b |-> ReplaceEnvVarValue(b, c.index, FindUserPortEnvIndex(p, c.index), "4180"),
             err |-> ""]

(* append one ReplaceProbePort per rewrite *)
RECURSIVE ReplaceProbePorts(_, _)
ReplaceProbePorts(b, rewrites) ==
    IF rewrites = <<>> THEN b
    ELSE ReplaceProbePorts(ReplaceProbePort(b, Head(rewrites).ContainerIndex,
                                            Head(rewrites).ProbeType, Head(rewrites).HandlerType,
                                            Head(rewrites).NewPort),
                           Tail(rewrites))

RECURSIVE AddVolumes(_, _)
AddVolumes(b, volumes) ==
    IF volumes = <<>> THEN b ELSE AddVolumes(AddVolume(b, JString(Head(volumes))), Tail(volumes))

(* what one call of Mutate returns and did: ops and err are the return values *)
(* (err "" is the nil error); loads are the calls of the config loader, base  *)
(* and overrides the arguments of Merge, merged and mapped tell whether Merge *)
(* succeeded and CalculatePortMapping was called, effective and mapping are   *)
(* their results, step is the place Mutate returned from.                     *)
Outcome == [ops |-> <<>>, err |-> "", loads |-> <<>>, merged |-> FALSE, mapped |-> FALSE,
            base |-> ProxyConfig, overrides |-> Config,
            effective |-> EffectiveConfig, mapping |-> PortMapping, step |-> "disabled"]

(* Mutate, lines 129-131: the builder with the init container and the sidecar *)
PatchContainers(p, effectiveCfg, mapping, initImage) ==
    AddContainer(
        AddInitContainer(NewPatchBuilder(hasExistingAnnotations(p), hasExistingLabels(p),
                                         hasExistingVolumes(p)),
                         ContainerPtrJSON(InitContainerBuild(initImage, effectiveCfg, mapping))),
        ContainerJSON(SidecarBuild(effectiveCfg, mapping)))

RemoveFoundPort(b, port) == IF port.found THEN RemovePort(b, port.i, port.j) ELSE b

(* a faulty PatchNamedPort: the probes are rewritten before the port is removed *)
PatchNamedPortProbesFirst(p, effectiveCfg, mapping, b) ==
    IF IsNamedPort(effectiveCfg.ProtectedPort)
    THEN RemoveFoundPort(ReplaceProbePorts(b, rewriteProbePortNames(p, effectiveCfg.ProtectedPort,
                                                                     mapping.ProxyPort)),
                         findProtectedPort(p, effectiveCfg.ProtectedPort))
    ELSE b

(* Mutate, lines 134-143: a named protected port is removed and its probes rewritten *)
PatchNamedPort(p, effectiveCfg, mapping, b) ==
    IF IsNamedPort(effectiveCfg.ProtectedPort)
    THEN ReplaceProbePorts(RemoveFoundPort(b, findProtectedPort(p, effectiveCfg.ProtectedPort)),
                           rewriteProbePortNames(p, effectiveCfg.ProtectedPort, mapping.ProxyPort))
    ELSE b

(* Mutate, lines 147-155: [b, err], blocked being what rewriteProbesForBlockedAccess returns *)
PatchBlockedProbes(effectiveCfg, b, blocked) ==
    IF ~effectiveCfg.BlockDirectAccess THEN [b |-> b, err |-> ""]
    ELSE IF blocked.err # "" THEN [b |-> b, err |-> blocked.err]
    ELSE [b |-> ReplaceProbePorts(b, blocked.rewrites), err |-> ""]

(* Mutate, lines 162-166, knative being what patchKnativeQueueProxy returns *)
PatchInjected(out, knative) ==
    IF knative.err # "" THEN [out EXCEPT !.err = knative.err, !.step = "knative"]
    ELSE [out EXCEPT !.ops = Build(AddAnnotation(knative.b, InjectedAnnotation, "true")),
                     !.step = "patched"]

(* Mutate, lines 149-166, probes being what the rewriting of the probes returns *)
PatchVolumes(p, out, probes) ==
    IF probes.err # "" THEN [out EXCEPT !.err = probes.err, !.step = "probes"]
    ELSE PatchInjected(out, patchKnativeQueueProxy(p, AddVolumes(probes.b, SidecarVolumes)))

(* the lines of Mutate after the port mapping: the builders and the patch *)
MutatePatch(p, effectiveCfg, mapping, initImage, out) ==
    PatchVolumes(p, out,
        PatchBlockedProbes(effectiveCfg,
            PatchNamedPort(p, effectiveCfg, mapping,
                           PatchContainers(p, effectiveCfg, mapping, initImage)),
            rewriteProbesForBlockedAccess(p, effectiveCfg.ProtectedPort, mapping)))

(* Mutate, lines 118-125, calculated being the port mapping and its error *)
MutateMapped(p, initImage, out, calculated) ==
    IF calculated.err # "" THEN [out EXCEPT !.err = calculated.err, !.step = "ports"]
    ELSE MutatePatch(p, out.effective, calculated.mapping, initImage,
                     [out EXCEPT !.mapping = calculated.mapping])

(* Mutate, lines 113-125, effectiveCfg being what Merge returns *)
MutateMerged(m, p, out, effectiveCfg) ==
    IF effectiveCfg.err # "" THEN [out EXCEPT !.err = effectiveCfg.err, !.step = "merge"]
    ELSE MutateMapped(p, m.initImage,
            [out EXCEPT !.merged = TRUE, !.effective = effectiveCfg.cfg,
                        !.mapped = effectiveCfg.cfg.ProtectedPort # ""],
            IF effectiveCfg.cfg.ProtectedPort # ""
            THEN CalculatePortMapping(collectContainerPorts(p), effectiveCfg.cfg)
            ELSE [mapping |-> PortMapping, err |-> ""])

(* Mutate, lines 104-116, loaded being the base config and the error of the loader *)
MutateLoaded(m, p, out, loaded) ==
    IF loaded.err # "" THEN [out EXCEPT !.err = loaded.err, !.step = "load"]
    ELSE MutateMerged(m, p, [out EXCEPT !.base = loaded.cfg], Merge(loaded.cfg, out.overrides))

(* a faulty ConfigMapOf: the default of the webhook comes before the annotation *)
ConfigMapOfDefaultFirst(m, p, annotationCfg) ==
    IF m.defaultConfigMap # "" THEN <<m.defaultConfigMap, m.defaultConfigNamespace>>
    ELSE IF annotationCfg.ConfigMapName # "" THEN <<annotationCfg.ConfigMapName, p.Namespace>>
    ELSE <<"", "">>

(* Mutate, lines 95-102: <<cm, cmNamespace>> *)
ConfigMapOf(m, p, annotationCfg) ==
    IF annotationCfg.ConfigMapName # "" THEN <<annotationCfg.ConfigMapName, p.Namespace>>
    ELSE IF m.defaultConfigMap # "" THEN <<m.defaultConfigMap, m.defaultConfigNamespace>>
    ELSE <<"", "">>

(* Mutate, lines 104-111, cm being <<cm, cmNamespace>> *)
MutateLoad(m, configMaps, p, annotationCfg, cm) ==
    MutateLoaded(m, p,
        [Outcome EXCEPT !.loads = If(cm[1] # "", <<cm>>), !.overrides = annotationCfg],
        IF cm[1] # "" THEN Load(configMaps, m.defaultConfigNamespace, cm[1], cm[2])
        ELSE [cfg |-> NewEmptyProxyConfig, err |-> ""])

(* Mutate, lines 84-93 and what follows, annotationCfg being what Parse returns *)
MutateParsed(m, configMaps, p, annotationCfg) ==
    IF annotationCfg.err # "" THEN [Outcome EXCEPT !.err = annotationCfg.err, !.step = "parse"]
    ELSE IF ~annotationCfg.cfg.Enabled THEN Outcome
    ELSE IF isAlreadyInjected(p) THEN [Outcome EXCEPT !.step = "injected"]
    ELSE MutateLoad(m, configMaps, p, annotationCfg.cfg, ConfigMapOf(m, p, annotationCfg.cfg))

(* PodMutator.Mutate of the mutator m on the pod p, against the ConfigMaps of the cluster *)
Mutate(m, configMaps, p) == MutateParsed(m, configMaps, p, Parse(p.Annotations))

-----------------------------------------------------------------------------
(* package service: mutator.go; its names carry the prefix Service where the *)
(* pod mutator has a definition of the same name                              *)

KeyRewritePorts == AnnotationPrefix \o "rewrite-ports"
KeyProxyPort == AnnotationPrefix \o "proxy-port"
ServiceKeyInjected == AnnotationPrefix \o "service-injected"
OriginalTargetPortPrefix == AnnotationPrefix \o "original-target."
DefaultProxyPort == 4180
MaxInt32 == "2147483647"

(* strconv.ParseInt(s, 10, 32): an optional sign, then digits, within 32 bits *)
Unsigned(s) == IF s # "" /\ Char(s, 1) \in {"+", "-"} THEN SubSeq(s, 2, Len(s)) ELSE s

ParseIntErr(s) ==
    \/ Unsigned(s) = ""
    \/ ~AllDigits(Unsigned(s))
    \/ LET z == StripZeros(Unsigned(s))
       IN Len(z) > Len(MaxInt32) \/ (Len(z) = Len(MaxInt32) /\ DigitsLess(MaxInt32, z))

ParseInt(s) ==
    IF s # "" /\ Char(s, 1) = "-" THEN 0 - AtoiInt32(Unsigned(s)) ELSE AtoiInt32(Unsigned(s))

ParseIntError(s) ==
    IF ~ParseIntErr(s) THEN ""
    ELSE "strconv.ParseInt: parsing \"" \o s \o "\": "
         \o (IF Unsigned(s) = "" \/ ~AllDigits(Unsigned(s)) THEN "invalid syntax"
             ELSE "value out of range")

ServicePort(name, port, targetPort) == [Name |-> name, Port |-> port, TargetPort |-> targetPort]

(* the zero value of ServiceConfig *)
ServiceConfig == [RewritePorts |-> <<>>, ProxyPort |-> 0]

(* [cfg, err, ok]: ok is FALSE when the returned *ServiceConfig is nil *)
ParseServiceAnnotations(annotations) ==
    LET rewritePorts == Split(TrimSpace(annotations[KeyRewritePorts]), ",")
        p == annotations[KeyProxyPort]
    IN IF ~Has(annotations, KeyRewritePorts) THEN [cfg |-> ServiceConfig, err |-> "", ok |-> FALSE]
       ELSE IF ~Has(annotations, KeyProxyPort)
       THEN [cfg |-> [RewritePorts |-> rewritePorts, ProxyPort |-> 4180], err |-> "", ok |-> TRUE]
       ELSE IF ParseIntErr(p) THEN [cfg |-> ServiceConfig, err |-> ParseIntError(p), ok |-> FALSE]
       ELSE IF ParseInt(p) < 1 \/ ParseInt(p) > 65535
       THEN [cfg |-> ServiceConfig, ok |-> FALSE,
             err |-> KeyProxyPort \o " value: " \o Itoa(ParseInt(p)) \o " not in valid port range"]
       ELSE [cfg |-> [RewritePorts |-> rewritePorts, ProxyPort |-> ParseInt(p)],
             err |-> "", ok |-> TRUE]

(* a faulty shouldRewritePort: a numeric identifier is compared with the    *)
(* targetPort only, never with the port                                      *)
RECURSIVE shouldRewritePortTargetOnly(_, _)
shouldRewritePortTargetOnly(port, rewritePorts) ==
    IF rewritePorts = <<>> THEN [b |-> FALSE, err |-> ""]
    ELSE LET p == Head(rewritePorts)
         IN IF IsNamedPort(p)
            THEN IF port.Name = p THEN [b |-> TRUE, err |-> ""]
                 ELSE shouldRewritePortTargetOnly(port, Tail(rewritePorts))
            ELSE IF ParseIntErr(p) THEN [b |-> FALSE, err |-> ParseIntError(p)]
            ELSE IF port.TargetPort = FromInt32(ParseInt(p)) THEN [b |-> TRUE, err |-> ""]
            ELSE shouldRewritePortTargetOnly(port, Tail(rewritePorts))

(* [b, err]: the identifiers are tried in order and the first match or error decides *)
RECURSIVE shouldRewritePort(_, _)
shouldRewritePort(port, rewritePorts) ==
    IF rewritePorts = <<>> THEN [b |-> FALSE, err |-> ""]
    ELSE LET p == Head(rewritePorts)
         IN IF IsNamedPort(p)
            THEN IF port.Name = p THEN [b |-> TRUE, err |-> ""]
                 ELSE shouldRewritePort(port, Tail(rewritePorts))
            ELSE IF ParseIntErr(p) THEN [b |-> FALSE, err |-> ParseIntError(p)]
            ELSE IF port.TargetPort = FromInt32(ParseInt(p)) \/ port.Port = ParseInt(p)
            THEN [b |-> TRUE, err |-> ""]
            ELSE shouldRewritePort(port, Tail(rewritePorts))

getPortIdentifier(port) == IF port.Name # "" THEN port.Name ELSE Itoa(port.Port)

NewServicePatchBuilder(hasAnnotations) == [operations |-> <<>>, hasAnnotations |-> hasAnnotations]

ReplaceTargetPort(b, portIndex, newPort) ==
    Appended(b, <<PatchOperation("add", "/spec/ports/" \o Itoa(portIndex) \o "/targetPort",
                                 JNumber(newPort))>>)

ServiceAddAnnotation(b, key, value) ==
    [Appended(b, If(~b.hasAnnotations,
                    <<PatchOperation("add", "/metadata/annotations", JObject(<<>>))>>)
                 \o <<PatchOperation("add", "/metadata/annotations/" \o escapeJSONPointer(key),
                                     JString(value))>>)
     EXCEPT !.hasAnnotations = TRUE]

ServiceIsAlreadyInjected(svc) == Has(svc.Annotations, ServiceKeyInjected)

ServiceHasExistingAnnotations(svc) == DOMAIN svc.Annotations # {}

(* the loop of buildServicePatches from the port with index i (from 0) on: [b, err] *)
RECURSIVE RewritePorts(_, _, _, _)
RewritePorts(svc, cfg, i, b) ==
    IF i >= Len(svc.Spec.Ports) THEN [b |-> b, err |-> ""]
    ELSE LET p == svc.Spec.Ports[i + 1]
             should == shouldRewritePort(p, cfg.RewritePorts)
             original == IF p.TargetPort.Type = "Int" THEN Itoa(p.TargetPort.IntVal)
                         ELSE p.TargetPort.StrVal
         IN IF should.err # "" THEN [b |-> b, err |-> should.err]
            ELSE IF should.b
            THEN RewritePorts(svc, cfg, i + 1,
                    ReplaceTargetPort(
                        ServiceAddAnnotation(b, OriginalTargetPortPrefix \o getPortIdentifier(p),
                                             original),
                        i, cfg.ProxyPort))
            ELSE RewritePorts(svc, cfg, i + 1, b)

(* buildServicePatches, lines 230-234, rewritten being the builder after the ports *)
ServicePatchInjected(rewritten) ==
    IF rewritten.err # "" THEN [ops |-> <<>>, err |-> rewritten.err]
    ELSE [ops |-> Build(ServiceAddAnnotation(rewritten.b, ServiceKeyInjected, "true")),
          err |-> ""]

buildServicePatches(svc, cfg) ==
    ServicePatchInjected(
        RewritePorts(svc, cfg, 0, NewServicePatchBuilder(ServiceHasExistingAnnotations(svc))))

(* ServiceMutator.Mutate, lines 135-145, cfg being what ParseServiceAnnotations returns *)
ServiceMutateParsed(svc, cfg) ==
    IF ServiceIsAlreadyInjected(svc) THEN [ops |-> <<>>, err |-> ""]
    ELSE IF cfg.err # "" THEN [ops |-> <<>>, err |-> cfg.err]
    ELSE IF ~cfg.ok THEN [ops |-> <<>>, err |-> ""]
    ELSE buildServicePatches(svc, cfg.cfg)

(* ServiceMutator.Mutate: [ops, err] *)
ServiceMutate(svc) == ServiceMutateParsed(svc, ParseServiceAnnotations(svc.Annotations))

ServicePortJSON(p) ==
    Members(<<<<"name", JString(p.Name), p.Name # "">>,
              <<"port", JNumber(p.Port), TRUE>>,
              <<"targetPort", IntOrStringJSON(p.TargetPort), TRUE>>>>)

ServiceJSON(svc) ==
    Members(<<
      <<"metadata",
        Members(<<<<"annotations", JStringMap(svc.Annotations), DOMAIN svc.Annotations # {}>>>>),
        TRUE>>,
      <<"spec",
        Members(<<<<"ports", JArray([i \in 1..Len(svc.Spec.Ports) |->
                                        ServicePortJSON(svc.Spec.Ports[i])]),
                    svc.Spec.Ports # <<>> >>>>),
        TRUE>>>>)

ServiceFromJSON(doc) ==
    LET ports == ArrayMember(ObjectMember(doc, "spec"), "ports")
    IN [Annotations |-> StringMapMember(ObjectMember(doc, "metadata"), "annotations"),
        Spec |-> [Ports |-> [i \in 1..Len(ports) |->
                    ServicePort(StringMember(ports[i], "name"), NumberMember(ports[i], "port"),
                                IF HasMember(ports[i], "targetPort")
                                THEN IntOrStringFromJSON(ports[i].m["targetPort"])
                                ELSE FromInt32(0))]]]

-----------------------------------------------------------------------------
(* package admission and package service: handler.go *)

ContentTypeJSON == "application/json"

(* json.Marshal of []PatchOperation and the API server's decoding of it *)
MarshalPatches(patches) ==
    JArray([i \in 1..Len(patches) |->
        Members(<<<<"op", JString(patches[i].Op), TRUE>>,
                  <<"path", JString(patches[i].Path), TRUE>>,
                  <<"value", patches[i].Value, patches[i].Value.t # "absent">>>>)])

UnmarshalPatches(node) ==
    [i \in 1..Len(node.a) |->
        PatchOperation(node.a[i].m["op"].s, node.a[i].m["path"].s,
                       IF "value" \in DOMAIN node.a[i].m THEN node.a[i].m["value"] ELSE NoValue)]

(* the zero value of AdmissionResponse *)
AdmissionResponse ==
    [UID |-> "", Allowed |-> FALSE, Message |-> "", PatchType |-> "", Patch |-> JNull]

allowed(uid) == [AdmissionResponse EXCEPT !.UID = uid, !.Allowed = TRUE]

(* a faulty denied: the webhook fails open, the message is kept *)
deniedFailOpen(uid, message) ==
    [AdmissionResponse EXCEPT !.UID = uid, !.Allowed = TRUE, !.Message = message]

denied(uid, message) == [AdmissionResponse EXCEPT !.UID = uid, !.Message = message]

patchResponse(uid, patch) ==
    [AdmissionResponse EXCEPT !.UID = uid, !.Allowed = TRUE, !.PatchType = "JSONPatch",
                              !.Patch = patch]

(* the mutator was not invoked *)
NotInvoked == [Outcome EXCEPT !.step = "none"]

(* the GroupVersionKind of a request *)
Kind(group, version, kind) == [Group |-> group, Version |-> version, Kind |-> kind]

(* handleAdmissionRequest, lines 458-472: the response to what the mutator returned *)
mutationResponse(uid, outcome) ==
    [response |-> IF outcome.err # "" THEN denied(uid, outcome.err)
                  ELSE IF Len(outcome.ops) = 0 THEN allowed(uid)
                  ELSE patchResponse(uid, MarshalPatches(outcome.ops)),
     outcome |-> outcome]

(* a faulty handleAdmissionRequest: of the kind only the name is compared *)
handleAdmissionRequestByKindName(m, configMaps, request, p) ==
    IF request.UID = "" THEN [response |-> denied("", "UID not set"), outcome |-> NotInvoked]
    ELSE IF request.Kind.Kind # "Pod"
    THEN [response |-> allowed(request.UID), outcome |-> NotInvoked]
    ELSE IF ~request.ObjectOK
    THEN [response |-> denied(request.UID, "failed to unmarshal pod: unexpected end of JSON input"),
          outcome |-> NotInvoked]
    ELSE IF request.Operation # "CREATE"
    THEN [response |-> allowed(request.UID), outcome |-> NotInvoked]
    ELSE mutationResponse(request.UID, Mutate(m, configMaps, p))

(* [response, outcome] of the pod route for a request that carries the pod p *)
handleAdmissionRequest(m, configMaps, request, p) ==
    IF request.UID = "" THEN [response |-> denied("", "UID not set"), outcome |-> NotInvoked]
    ELSE IF request.Kind # Kind("", "v1", "Pod")
    THEN [response |-> allowed(request.UID), outcome |-> NotInvoked]
    ELSE IF ~request.ObjectOK
    THEN [response |-> denied(request.UID, "failed to unmarshal pod: unexpected end of JSON input"),
          outcome |-> NotInvoked]
    ELSE IF request.Operation # "CREATE"
    THEN [response |-> allowed(request.UID), outcome |-> NotInvoked]
    ELSE mutationResponse(request.UID, Mutate(m, configMaps, p))

(* what ServiceMutator.Mutate returned, as an outcome *)
ServiceOutcome(mutated) ==
    [Outcome EXCEPT !.ops = mutated.ops, !.err = mutated.err, !.step = "service"]

(* [response, outcome] of the service route for a request that carries the Service svc *)
ServiceHandleAdmissionRequest(request, svc) ==
    IF request.UID = "" THEN [response |-> denied("", "UID not set"), outcome |-> NotInvoked]
    ELSE IF request.Kind # Kind("", "v1", "Service")
    THEN [response |-> allowed(request.UID), outcome |-> NotInvoked]
    ELSE IF ~request.ObjectOK
    THEN [response |-> denied(request.UID,
                              "failed to unmarshal service: unexpected end of JSON input"),
          outcome |-> NotInvoked]
    ELSE IF request.Operation # "CREATE"
    THEN [response |-> allowed(request.UID), outcome |-> NotInvoked]
    ELSE mutationResponse(request.UID, ServiceOutcome(ServiceMutate(svc)))

(* what the HTTP handler writes: the status and, with status 200, the review's response *)
HTTPResponse(status, review) == [Status |-> status, HasReview |-> status = 200, Review |-> review]

(* a faulty HandleAdmission: the content type is checked before the method *)
HandleAdmissionContentTypeFirst(request, handled) ==
    IF request.ContentType # "application/json"
    THEN [http |-> HTTPResponse(415, AdmissionResponse), outcome |-> NotInvoked]
    ELSE IF request.Method # "POST"
    THEN [http |-> HTTPResponse(405, AdmissionResponse), outcome |-> NotInvoked]
    ELSE IF ~request.BodyOK
    THEN [http |-> HTTPResponse(400, AdmissionResponse), outcome |-> NotInvoked]
    ELSE IF ~request.HasRequest
    THEN [http |-> HTTPResponse(200, denied("", "missing request in AdmissionReview")),
          outcome |-> NotInvoked]
    ELSE [http |-> HTTPResponse(200, handled.response), outcome |-> handled.outcome]

(* Handler.HandleAdmission of either route, handled being its handleAdmissionRequest *)
HandleAdmission(request, handled) ==
    IF request.Method # "POST"
    THEN [http |-> HTTPResponse(405, AdmissionResponse), outcome |-> NotInvoked]
    ELSE IF request.ContentType # "application/json"
    THEN [http |-> HTTPResponse(415, AdmissionResponse), outcome |-> NotInvoked]
    ELSE IF ~request.BodyOK
    THEN [http |-> HTTPResponse(400, AdmissionResponse), outcome |-> NotInvoked]
    ELSE IF ~request.HasRequest
    THEN [http |-> HTTPResponse(200, denied("", "missing request in AdmissionReview")),
          outcome |-> NotInvoked]
    ELSE [http |-> HTTPResponse(200, handled.response), outcome |-> handled.outcome]

-----------------------------------------------------------------------------
(* The objects, ConfigMaps and requests the model admits *)

(* the map with the pairs of the sequence, later pairs overriding earlier ones *)
RECURSIVE MapOf(_)
MapOf(pairs) ==
    IF pairs = <<>> THEN <<>>
    ELSE (pairs[Len(pairs)][1] :> pairs[Len(pairs)][2]) @@ MapOf(SubSeq(pairs, 1, Len(pairs) - 1))

ConfigMaps ==
    (<<"oauth-system", "default-cfg">> :>
        MapOf(<<<<CMKeyProvider, "oidc">>, <<CMKeyOIDCIssuerURL, "https://issuer">>,
                <<CMKeyClientID, "base-id">>, <<CMKeyClientSecretRef, "base-secret">>,
                <<CMKeyCookieSecretRef, "base-cookie:key">>, <<CMKeyScope, "openid">>,
                <<CMKeyEmailDomains, "*">>, <<CMKeyPassAccessToken, "true">>,
                <<CMKeyExtraArgs, "--upstream=http://extra:1\n--banner=x">>>>))
    @@ (<<"apps", "team-cfg">> :>
        MapOf(<<<<CMKeyProvider, "github">>, <<CMKeyClientID, "team-id">>,
                <<CMKeyPKCEEnabled, "true">>, <<CMKeyCookieSecretRef, "team-cookie">>,
                <<CMKeyProxyImage, "registry/proxy:1">>>>))
    @@ (<<"apps", "partial-cfg">> :> MapOf(<<<<CMKeyProvider, "oidc">>, <<CMKeyClientID, "p">>>>))
    @@ (<<"apps", "bad-cfg">> :>
        MapOf(<<<<CMKeyProvider, "github">>, <<CMKeyCookieSecure, "maybe">>>>))

HTTPGetProbe(port) == [NoProbe EXCEPT !.set = TRUE, !.HTTPGet = Handler("/healthz", port)]
TCPSocketProbe(port) == [NoProbe EXCEPT !.set = TRUE, !.TCPSocket = Handler("", port)]

(* the application containers pods are made of *)
ContainerTemplates ==
    {[Container EXCEPT !.Name = "app", !.Image = "app:1",
                       !.Ports = <<ContainerPort("http", 8080, "TCP")>>,
                       !.LivenessProbe = HTTPGetProbe(FromString("http")),
                       !.ReadinessProbe = TCPSocketProbe(FromInt32(8080))],
     [Container EXCEPT !.Name = "web", !.Image = "web:1",
                       !.Ports = <<ContainerPort("", 80, ""), ContainerPort("metrics", 9090, "TCP")>>,
                       !.ReadinessProbe = [NoProbe EXCEPT !.set = TRUE],
                       !.StartupProbe = HTTPGetProbe(FromInt32(80))],
     [Container EXCEPT !.Name = "api", !.Image = "api:1",
                       !.Ports = <<ContainerPort("grpc", 7000, "TCP"),
                                   ContainerPort("http", 9000, "TCP")>>,
                       !.LivenessProbe = TCPSocketProbe(FromString("http")),
                       !.StartupProbe = TCPSocketProbe(FromString("grpc"))],
     [Container EXCEPT !.Name = "queue-proxy", !.Image = "queue:1",
                       !.Env = <<EnvValue("SERVING_POD", "x"), EnvValue("USER_PORT", "8080")>>],
     [Container EXCEPT !.Name = "queue-proxy", !.Image = "queue:1",
                       !.Env = <<EnvValue("SERVING_POD", "x")>>],
     [Container EXCEPT !.Name = "oauth2-proxy", !.Image = "proxy:0",
                       !.Ports = <<ContainerPort("oauth2-proxy", 4180, "TCP")>>]}

(* sequences of at most n containers, no two with the same name *)
RECURSIVE ContainerLists(_)
ContainerLists(n) ==
    IF n = 0 THEN {<<>>}
    ELSE ContainerLists(n - 1)
         \cup UNION {{Append(l, c) : c \in {t \in ContainerTemplates :
                                                \A i \in 1..Len(l) : l[i].Name # t.Name}} :
                        l \in {x \in ContainerLists(n - 1) : Len(x) = n - 1}}

(* what a pod has besides its containers: labels, volumes and init containers *)
PodShapes ==
    {[Labels |-> <<>>, Volumes |-> <<>>, InitContainers |-> <<>>],
     [Labels |-> ("app" :> "x"), Volumes |-> <<"data">>,
      InitContainers |-> <<[Container EXCEPT !.Name = "setup", !.Image = "setup:1"]>>],
     [Labels |-> ("serving.knative.dev/service" :> "svc"), Volumes |-> <<>>,
      InitContainers |-> <<[Container EXCEPT !.Name = "setup", !.Image = "setup:1"]>>]}

NewPod(annotations, shape, containers) ==
    [Namespace |-> "apps", Annotations |-> annotations, Labels |-> shape.Labels,
     Spec |-> [Volumes |-> shape.Volumes, InitContainers |-> shape.InitContainers,
               Containers |-> containers]]

(* annotation sets for pods of many shapes: the configuration is the valid  *)
(* team-cfg, the protected port and the direct-access block vary             *)
PortAnnotations ==
    LET base == <<<<KeyEnabled, "true">>, <<KeyConfig, "team-cfg">>>>
    IN {MapOf(base \o <<<<KeyProtectedPort, "http">>>>),
        MapOf(base \o <<<<KeyProtectedPort, "http">>, <<KeyBlockDirectAccess, "true">>>>),
        MapOf(base \o <<<<KeyProtectedPort, "8080">>>>),
        MapOf(base \o <<<<KeyProtectedPort, " 80 ">>, <<KeyBlockDirectAccess, "true">>>>),
        MapOf(base \o <<<<KeyProtectedPort, "4294967376">>>>),
        MapOf(base \o <<<<KeyProtectedPort, "4294967376">>, <<KeyBlockDirectAccess, "true">>>>),
        MapOf(base \o <<<<KeyProtectedPort, "99999999999999999999">>>>),
        MapOf(base \o <<<<KeyUpstream, "http://other:9000">>>>),
        MapOf(base \o <<<<KeyUpstream, "http://other:9000">>, <<KeyBlockDirectAccess, "true">>>>),
        MapOf(base \o <<<<KeyProtectedPort, "http">>, <<KeyInjected, "true">>>>)}

NoDefault == [defaultConfigMap |-> "", defaultConfigNamespace |-> "", initImage |-> "alpine:latest"]
WithDefault ==
    [defaultConfigMap |-> "default-cfg", defaultConfigNamespace |-> "oauth-system",
     initImage |-> "alpine:latest"]

(* the webhooks, each with an annotation set that the overrides below are laid over *)
CoreAnnotations ==
    {<<NoDefault, MapOf(<<<<KeyEnabled, "true">>, <<KeyProvider, "github">>,
                          <<KeyClientID, "app">>, <<KeyCookieSecretRef, "cookie">>,
                          <<KeyPKCEEnabled, "true">>, <<KeyProtectedPort, "http">>>>)>>,
     <<WithDefault, MapOf(<<<<KeyEnabled, "true">>, <<KeyProtectedPort, "8080">>>>)>>,
     <<WithDefault, MapOf(<<<<KeyEnabled, "true">>, <<KeyUpstream, "http://other:9000">>>>)>>}

(* annotation sets of pods that are not enabled, whatever else they carry, and *)
(* of enabled pods whose ConfigMap or whose annotations are malformed          *)
OtherAnnotations ==
    {<<w, MapOf(<<e>> \o rest)>> :
        w \in {NoDefault, WithDefault},
        e \in {<<"app", "x">>, <<KeyEnabled, "false">>, <<KeyEnabled, " true">>,
               <<KeyEnabled, "TRUE">>, <<KeyEnabled, "1">>, <<KeyEnabled, "">>},
        rest \in {<<>>,
                  <<<<KeyProtectedPort, "http">>, <<KeyInjected, "true">>>>,
                  <<<<KeyCookieSecure, "maybe">>, <<KeyConfig, "missing-cfg">>,
                    <<KeyUpstreamTLS, "tls">>>>}}
    \cup
    {<<NoDefault, MapOf(<<<<KeyEnabled, "true">>, <<KeyProtectedPort, "http">>>> \o rest)>> :
        rest \in {<<<<KeyConfig, "bad-cfg">>>>,
                  <<<<KeyConfig, "partial-cfg">>>>,
                  <<<<KeyConfig, "team-cfg">>, <<KeyRedirectURL, "%zz">>>>,
                  <<<<KeyConfig, "team-cfg">>, <<KeyExtraJWTIssuers, "issuer">>>>,
                  <<<<KeyConfig, "team-cfg">>, <<KeyExtraJWTIssuers, "a=b, c=d">>,
                    <<KeyEmailDomains, "a.com, ,b.com">>, <<KeyUpstream, "">>>>,
                  <<<<KeyConfig, "team-cfg">>, <<KeySkipJWTBearerTokens, "yes">>>>}}

(* the annotations a pod may carry on top of a core set, as <<key, value>> *)
Overrides ==
    {<<KeyConfig, "missing-cfg">>,
     <<KeyProvider, "">>,
     <<KeyOIDCIssuerURL, "">>,
     <<KeyClientID, "">>,
     <<KeyClientSecretRef, "secret:key">>, <<KeyClientSecretRef, "secret:">>,
     <<KeyCookieSecretRef, "">>,
     <<KeyPKCEEnabled, "false">>, <<KeyPKCEEnabled, "maybe">>,
     <<KeyCookieSecure, " False ">>,
     <<KeyPassAccessToken, "0">>,
     <<KeyScope, "">>,
     <<KeyEmailDomains, "">>,
     <<KeyUpstreamTLS, "https-insecure">>, <<KeyUpstreamTLS, "https">>,
     <<KeyUpstreamTLS, "tls">>,
     <<KeyUpstream, "https://elsewhere">>,
     <<KeyProtectedPort, "">>, <<KeyProtectedPort, "70000">>,
     <<KeyBlockDirectAccess, "true">>, <<KeyBlockDirectAccess, "1">>,
     <<KeyBlockDirectAccess, "yes">>,
     <<KeySetXAuthRequest, "">>, <<KeySetXAuthRequest, "TRUE">>,
     <<KeySkipJWTBearerTokens, " True ">>, <<KeySkipJWTBearerTokens, "">>,
     <<KeySkipProviderButton, "on">>}

(* sets of at most n overrides, no two for the same key *)
RECURSIVE OverrideSets(_)
OverrideSets(n) ==
    IF n = 0 THEN {{}}
    ELSE OverrideSets(n - 1)
         \cup UNION {{S \cup {x} : x \in {y \in Overrides : \A z \in S : z[1] # y[1]}} :
                        S \in OverrideSets(n - 1)}

WithOverrides(core, S) ==
    [k \in DOMAIN core \cup {x[1] : x \in S} |->
        IF \E x \in S : x[1] = k THEN (CHOOSE x \in S : x[1] = k)[2] ELSE core[k]]

(* the pod the overrides are tried on: one application and one init container *)
PlainPod(annotations) ==
    NewPod(annotations,
           [Labels |-> <<>>, Volumes |-> <<>>,
            InitContainers |-> <<[Container EXCEPT !.Name = "setup", !.Image = "setup:1"]>>],
           <<[Container EXCEPT !.Name = "app", !.Image = "app:1",
                               !.Ports = <<ContainerPort("http", 8080, "TCP")>>,
                               !.LivenessProbe = HTTPGetProbe(FromString("http")),
                               !.ReadinessProbe = TCPSocketProbe(FromInt32(8080))]>>)

(* the zero value of Service *)
NoService == [Annotations |-> <<>>, Spec |-> [Ports |-> <<>>]]

Services ==
    {[Annotations |-> a, Spec |-> [Ports |-> ports]] :
        a \in {<<>>,
               MapOf(<<<<KeyRewritePorts, "http">>>>),
               MapOf(<<<<KeyRewritePorts, "http, 8443">>>>),
               MapOf(<<<<KeyRewritePorts, "80,admin">>, <<KeyProxyPort, "4181">>>>),
               MapOf(<<<<KeyRewritePorts, "http">>, <<KeyProxyPort, "70000">>>>),
               MapOf(<<<<KeyRewritePorts, "http">>, <<KeyProxyPort, "proxy">>>>),
               MapOf(<<<<KeyRewritePorts, "http,">>>>),
               MapOf(<<<<KeyRewritePorts, "http">>, <<ServiceKeyInjected, "true">>>>),
               MapOf(<<<<ServiceKeyInjected, "false">>, <<KeyProxyPort, "proxy">>>>)},
        ports \in {<<>>,
                   <<ServicePort("http", 80, FromInt32(8080))>>,
                   <<ServicePort("", 80, FromString("web")), ServicePort("admin", 9000, FromInt32(0))>>,
                   <<ServicePort("a/b", 8443, FromInt32(8443)), ServicePort("http", 81, FromInt32(80))>>}}

(* a CREATE of the kind of the route, well-formed *)
Create(route) ==
    [Route |-> route, Method |-> "POST", ContentType |-> ContentTypeJSON, BodyOK |-> TRUE,
     HasRequest |-> TRUE, UID |-> "uid-1", Operation |-> "CREATE", ObjectOK |-> TRUE,
     Kind |-> Kind("", "v1", IF route = "pod" THEN "Pod" ELSE "Service")]

(* requests that differ from the well-formed CREATE in one part *)
Envelopes(route) ==
    {[Create(route) EXCEPT !.Method = "GET"],
     [Create(route) EXCEPT !.Method = "GET", !.ContentType = "text/plain"],
     [Create(route) EXCEPT !.ContentType = "text/plain", !.BodyOK = FALSE],
     [Create(route) EXCEPT !.BodyOK = FALSE],
     [Create(route) EXCEPT !.HasRequest = FALSE],
     [Create(route) EXCEPT !.UID = ""],
     [Create(route) EXCEPT !.Operation = "UPDATE"],
     [Create(route) EXCEPT !.Operation = "DELETE", !.ObjectOK = FALSE],
     [Create(route) EXCEPT !.Operation = "CONNECT"],
     [Create(route) EXCEPT !.ObjectOK = FALSE],
     [Create(route) EXCEPT !.Kind = Kind("apps", "v1", "Deployment")],
     [Create(route) EXCEPT !.Kind = Kind("apps", "v1", "Deployment"), !.ObjectOK = FALSE],
     [Create(route) EXCEPT !.Kind = Kind("", "v1", IF route = "pod" THEN "Service" ELSE "Pod")],
     [Create(route) EXCEPT !.Kind = Kind("", "v2", IF route = "pod" THEN "Pod" ELSE "Service")]}

-----------------------------------------------------------------------------
(* The admissions *)

PodAdmissions ==
    {[envelope |-> Create("pod"), webhook |-> NoDefault, pod |-> NewPod(a, shape, containers)] :
        a \in PortAnnotations, shape \in PodShapes,
        containers \in ContainerLists(MaxContainers) \ {<<>>}}
    \cup
    {[envelope |-> Create("pod"), webhook |-> core[1],
      pod |-> PlainPod(WithOverrides(core[2], S))] :
        core \in CoreAnnotations, S \in OverrideSets(MaxOverrides)}
    \cup
    {[envelope |-> Create("pod"), webhook |-> other[1], pod |-> PlainPod(other[2])] :
        other \in OtherAnnotations}
    \cup
    {[envelope |-> e, webhook |-> core[1], pod |-> PlainPod(core[2])] :
        e \in Envelopes("pod"), core \in CoreAnnotations}

ServiceAdmissions ==
    {[envelope |-> Create("service"), service |-> svc] : svc \in Services}
    \cup
    {[envelope |-> e, service |-> svc] :
        e \in Envelopes("service"),
        svc \in {x \in Services : Len(x.Spec.Ports) = 1 /\ KeyProxyPort \notin DOMAIN x.Annotations}}

Init ==
    /\ cluster = ConfigMaps
    /\ phase = "new"
    /\ round = 1
    /\ result = NotInvoked
    /\ response = HTTPResponse(0, AdmissionResponse)
    /\ builder = NewPatchBuilder(FALSE, FALSE, FALSE)
    /\ calls = <<>>
    /\ \/ \E a \in PodAdmissions :
            envelope = a.envelope /\ webhook = a.webhook /\ pod = a.pod /\ service = NoService
       \/ \E a \in ServiceAdmissions :
            /\ envelope = a.envelope
            /\ webhook = NoDefault
            /\ pod = NewPod(<<>>, CHOOSE x \in PodShapes : x.InitContainers = <<>>, <<>>)
            /\ service = a.service

(* the webhook answers a request on the pod route: the whole of HandleAdmission *)
AdmitPod ==
    /\ phase = "new"
    /\ envelope.Route = "pod"
    /\ \E answer \in {HandleAdmission(envelope,
                                       handleAdmissionRequest(webhook, cluster, envelope, pod))} :
            response' = answer.http /\ result' = answer.outcome
    /\ phase' = "answered"
    /\ UNCHANGED <<envelope, pod, service, cluster, webhook, round>>
    /\ UNCHANGED <<builder, calls>>

(* the webhook answers a request on the service route *)
AdmitService ==
    /\ phase = "new"
    /\ envelope.Route = "service"
    /\ \E answer \in {HandleAdmission(envelope, ServiceHandleAdmissionRequest(envelope, service))} :
            response' = answer.http /\ result' = answer.outcome
    /\ phase' = "answered"
    /\ UNCHANGED <<envelope, pod, service, cluster, webhook, round>>
    /\ UNCHANGED <<builder, calls>>

(* the document the API server holds for the object under admission *)
Document == IF envelope.Route = "pod" THEN PodJSON(pod) ELSE ServiceJSON(service)

(* the API server applies the JSON patch of the response to the object; the *)
(* request is rejected when the patch does not apply                        *)
Apply ==
    /\ phase = "answered"
    /\ response.Status = 200
    /\ response.Review.Allowed
    /\ response.Review.PatchType = "JSONPatch"
    /\ \E patched \in {ApplyPatch(Document, UnmarshalPatches(response.Review.Patch))} :
            IF ~patched.ok THEN phase' = "rejected" /\ UNCHANGED <<pod, service>>
            ELSE /\ phase' = "applied"
                 /\ IF envelope.Route = "pod"
                    THEN pod' = PodFromJSON(patched.doc) /\ UNCHANGED service
                    ELSE service' = ServiceFromJSON(patched.doc) /\ UNCHANGED pod
    /\ UNCHANGED <<envelope, cluster, webhook, round, result, response>>
    /\ UNCHANGED <<builder, calls>>

(* the patched object is submitted for admission again *)
Resubmit ==
    /\ phase = "applied"
    /\ round = 1
    /\ round' = 2
    /\ phase' = "new"
    /\ UNCHANGED <<envelope, pod, service, cluster, webhook, result, response>>
    /\ UNCHANGED <<builder, calls>>

Next == AdmitPod \/ AdmitService \/ Apply \/ Resubmit

Spec == Init /\ [][Next]_vars
-----------------------------------------------------------------------------
(* The patch builders on their own: any sequence of at most MaxCalls method  *)
(* calls on a JSONPatchBuilder or a ServicePatchBuilder, whatever the hints  *)
(* it was constructed with.  calls[1] is the constructor call.               *)

admission == <<envelope, pod, service, cluster, webhook, phase, round, result, response>>

(* the arguments the methods are called with *)
BuilderKeys == {"a/b", "x~/y"}
BuilderValue == JObject("name" :> JString("v"))

BuilderInit ==
    /\ envelope = Create("pod")
    /\ pod = NewPod(<<>>, CHOOSE x \in PodShapes : x.InitContainers = <<>>, <<>>)
    /\ service = NoService
    /\ cluster = ConfigMaps
    /\ webhook = NoDefault
    /\ phase = "builder"
    /\ round = 1
    /\ result = NotInvoked
    /\ response = HTTPResponse(0, AdmissionResponse)
    /\ \/ \E a, l, v \in BOOLEAN :
            /\ builder = NewPatchBuilder(a, l, v)
            /\ calls = <<<<"NewPatchBuilder", a, l, v>>>>
       \/ \E a \in BOOLEAN :
            /\ builder = NewServicePatchBuilder(a)
            /\ calls = <<<<"NewServicePatchBuilder", a>>>>

(* one more method may be called on the builder, of the one kind or the other *)
PodBuilderOpen == Len(calls) <= MaxCalls /\ calls[1][1] = "NewPatchBuilder"
ServiceBuilderOpen == Len(calls) <= MaxCalls /\ calls[1][1] = "NewServicePatchBuilder"

CallAddContainer ==
    /\ PodBuilderOpen
    /\ builder' = AddContainer(builder, BuilderValue)
    /\ calls' = Append(calls, <<"AddContainer", BuilderValue>>)
    /\ UNCHANGED admission

CallAddInitContainer ==
    /\ PodBuilderOpen
    /\ builder' = AddInitContainer(builder, BuilderValue)
    /\ calls' = Append(calls, <<"AddInitContainer", BuilderValue>>)
    /\ UNCHANGED admission

CallAddVolume ==
    /\ PodBuilderOpen
    /\ builder' = AddVolume(builder, BuilderValue)
    /\ calls' = Append(calls, <<"AddVolume", BuilderValue>>)
    /\ UNCHANGED admission

CallAddAnnotation ==
    /\ PodBuilderOpen
    /\ \E key \in BuilderKeys :
            /\ builder' = AddAnnotation(builder, key, "true")
            /\ calls' = Append(calls, <<"AddAnnotation", key, "true">>)
    /\ UNCHANGED admission

CallAddLabel ==
    /\ PodBuilderOpen
    /\ \E key \in BuilderKeys :
            /\ builder' = AddLabel(builder, key, "x")
            /\ calls' = Append(calls, <<"AddLabel", key, "x">>)
    /\ UNCHANGED admission

CallRemovePort ==
    /\ PodBuilderOpen
    /\ builder' = RemovePort(builder, 1, 0)
    /\ calls' = Append(calls, <<"RemovePort", 1, 0>>)
    /\ UNCHANGED admission

CallReplaceProbePort ==
    /\ PodBuilderOpen
    /\ builder' = ReplaceProbePort(builder, 0, "livenessProbe", "httpGet", 8080)
    /\ calls' = Append(calls, <<"ReplaceProbePort", 0, "livenessProbe", "httpGet", 8080>>)
    /\ UNCHANGED admission

CallReplaceEnvVarValue ==
    /\ PodBuilderOpen
    /\ builder' = ReplaceEnvVarValue(builder, 1, 2, "4180")
    /\ calls' = Append(calls, <<"ReplaceEnvVarValue", 1, 2, "4180">>)
    /\ UNCHANGED admission

CallReplaceTargetPort ==
    /\ ServiceBuilderOpen
    /\ \E portIndex \in {0, 1} :
            /\ builder' = ReplaceTargetPort(builder, portIndex, DefaultProxyPort)
            /\ calls' = Append(calls, <<"ReplaceTargetPort", portIndex, DefaultProxyPort>>)
    /\ UNCHANGED admission

CallServiceAddAnnotation ==
    /\ ServiceBuilderOpen
    /\ \E key \in BuilderKeys, value \in {"8080", "web"} :
            /\ builder' = ServiceAddAnnotation(builder, key, value)
            /\ calls' = Append(calls, <<"AddAnnotation", key, value>>)
    /\ UNCHANGED admission

BuilderNext ==
    \/ CallAddContainer \/ CallAddInitContainer \/ CallAddVolume \/ CallAddAnnotation
    \/ CallAddLabel \/ CallRemovePort \/ CallReplaceProbePort \/ CallReplaceEnvVarValue
    \/ CallReplaceTargetPort \/ CallServiceAddAnnotation

BuilderSpec == BuilderInit /\ [][BuilderNext]_vars
-----------------------------------------------------------------------------
(* Properties.  Answered is the state right after the webhook answered a    *)
(* well-formed CREATE of a pod: pod is still the pod the mutator was given,  *)
(* result is what the mutator returned and did.                              *)

Answered == phase = "answered" /\ envelope = Create("pod")

(* the operations of the returned patch that satisfy Test *)
OpsWhere(Test(_)) == {i \in 1..Len(result.ops) : Test(result.ops[i])}

IsInitContainerOp(op) == HasPrefix(op.Path, "/spec/initContainers")
IsPortRemove(op) == op.Op = "remove"
IsProbeReplace(op) ==
    op.Op = "replace" /\ Len(op.Path) > 5 /\ SubSeq(op.Path, Len(op.Path) - 4, Len(op.Path)) = "/port"
IsSidecarAdd(op) == op.Op = "add" /\ op.Path = "/spec/containers/-"
IsInjectedAdd(op) ==
    /\ op.Op = "add"
    /\ op.Path = "/metadata/annotations/spacemule.net~1oauth2-proxy.injected"
    /\ op.Value = JString("true")

(* the args of the sidecar the patch adds *)
SidecarArgs ==
    LET op == result.ops[CHOOSE i \in OpsWhere(IsSidecarAdd) : TRUE]
    IN [i \in 1..Len(op.Value.m["args"].a) |-> op.Value.m["args"].a[i].s]

(* its builder-generated part: what precedes the configured extra arguments *)
BuilderArgs == SubSeq(SidecarArgs, 1, Len(SidecarArgs) - Len(result.effective.ExtraArgs))

Range(seq) == {seq[i] : i \in 1..Len(seq)}

(* C1: a pod whose enabled annotation is not exactly "true" gets an empty     *)
(* patch and no error, and the config loader is not called, whatever else    *)
(* the pod carries.                                                           *)
C1_DisabledPodUntouched ==
    (Answered /\ Get(pod.Annotations, KeyEnabled) # "true")
        => /\ result.step = "disabled"
           /\ result.ops = <<>>
           /\ result.err = ""
           /\ result.loads = <<>>

(* a pod with enabled " true", a malformed boolean and a missing ConfigMap was answered *)
C1_Witness ==
    /\ Answered
    /\ Get(pod.Annotations, KeyEnabled) = " true"
    /\ Get(pod.Annotations, KeyCookieSecure) = "maybe"
    /\ Get(pod.Annotations, KeyConfig) = "missing-cfg"
    /\ result.step = "disabled"

(* C2: the re-admission of an object whose patch was applied returns an empty *)
(* patch and no error; an enabled pod with the injected annotation and a      *)
(* container named oauth2-proxy, and a Service with the service-injected      *)
(* annotation, get an empty patch.                                            *)
C2_ReadmissionIdempotent ==
    /\ (round = 2 /\ phase = "answered")
            => /\ result.ops = <<>>
               /\ result.err = ""
               /\ response.Review.Allowed
               /\ response.Review.Patch = JNull
    /\ (/\ Answered
        /\ Get(pod.Annotations, KeyEnabled) = "true"
        /\ InjectedAnnotation \in DOMAIN pod.Annotations
        /\ \E i \in 1..Len(pod.Spec.Containers) : pod.Spec.Containers[i].Name = "oauth2-proxy")
            => result.ops = <<>>
    /\ (/\ phase = "answered"
        /\ envelope = Create("service")
        /\ ServiceKeyInjected \in DOMAIN service.Annotations)
            => result.ops = <<>>

(* a patched pod with its sidecar was admitted again *)
C2_Witness ==
    /\ round = 2
    /\ Answered
    /\ result.step = "injected"
    /\ Len(pod.Spec.Containers) >= 2
    /\ pod.Spec.Containers[Len(pod.Spec.Containers)].Name = "oauth2-proxy"

(* C3: the patch the pod mutator returns applies to the pod it was computed   *)
(* for: no operation fails under RFC 6902.                                    *)
C3_PatchApplies == ~(phase = "rejected" /\ envelope.Route = "pod")

(* C4: the patch has an add on /spec/initContainers/- if and only if          *)
(* block-direct-access is true, and no operation carries a null value.        *)
C4_InitContainerOnlyWhenBlocking ==
    (Answered /\ result.step = "patched")
        => /\ (OpsWhere(IsInitContainerOp) # {}) <=> result.effective.BlockDirectAccess
           /\ \A i \in 1..Len(result.ops) : result.ops[i].Value # JNull

(* the validity that Merge promises of an effective config *)
ValidConfig(cfg) ==
    /\ cfg.ProtectedPort # "" \/ cfg.Upstream # ""
    /\ cfg.Provider = "oidc" => cfg.OIDCIssuerURL # ""
    /\ cfg.PKCEEnabled \/ cfg.ClientSecretRef.set
    /\ cfg.CookieSecretRef.set
    /\ cfg.UpstreamTLS \in {"http", "https", "https-insecure"}

(* C5: every effective config Merge returns is valid (protected port or      *)
(* upstream; issuer for oidc; pkce or client secret; cookie secret; a known   *)
(* upstream TLS mode); when the merged fields are not valid Merge returns an  *)
(* error and no config, and no patch is built without a merged config.        *)
C5_MergedConfigValid ==
    Answered
        => /\ result.merged => ValidConfig(result.effective)
           /\ (/\ result.step \in {"merge", "ports", "probes", "knative", "patched"}
               /\ ~ValidConfig(MergedConfig(result.base, result.overrides)))
                    => /\ result.step = "merge"
                       /\ result.err # ""
                       /\ ~result.merged
                       /\ result.ops = <<>>
           /\ result.ops # <<>> => result.merged

(* Merge refused a config whose only defect is the missing cookie secret *)
C5_Witness ==
    /\ Answered
    /\ result.step = "merge"
    /\ ~MergedConfig(result.base, result.overrides).CookieSecretRef.set
    /\ ValidConfig([MergedConfig(result.base, result.overrides)
                        EXCEPT !.CookieSecretRef = [set |-> TRUE, Name |-> "s", Key |-> "k"]])
    /\ ~URLParseFails(MergedConfig(result.base, result.overrides).RedirectURL)

(* C6: when a step of the pod mutator fails it returns the error and no      *)
(* operation at all, and the handler answers HTTP 200 with allowed = false,   *)
(* the error text as the message and no patch.                                *)
C6_FailSecure ==
    (Answered /\ result.err # "")
        => /\ result.ops = <<>>
           /\ result.step \in {"parse", "load", "merge", "ports", "probes", "knative"}
           /\ response.Status = 200
           /\ response.HasReview
           /\ ~response.Review.Allowed
           /\ response.Review.Message = result.err
           /\ response.Review.Patch = JNull
           /\ response.Review.PatchType = ""

(* the last planning step, the lookup in the platform sidecar, failed *)
C6_Witness ==
    /\ Answered
    /\ result.step = "knative"
    /\ result.err # ""
    /\ result.merged
    /\ ~response.Review.Allowed

(* C7: after Merge every overridable scalar is the override when the override *)
(* is set, the empty string and false included, and the base value otherwise; *)
(* every overridable list is the override list when its Set flag is true, the *)
(* empty list included, and the base list otherwise; upstream is the override *)
(* or empty.                                                                  *)
C7_TriStateMerge ==
    (Answered /\ result.merged)
        => LET e == result.effective
               b == result.base
               o == result.overrides.Overrides
               Scalar(f) == e[f] = IF o[f].set THEN o[f].v ELSE b[f]
               List(f, flag) == e[f] = IF o[flag] THEN o[f] ELSE b[f]
               SecretRef(f, key) ==
                   IF o[f].set
                   THEN e[f].set /\ e[f] = parseSecretRef(o[f].v, key).ref
                   ELSE e[f] = b[f]
           IN /\ \A f \in {"Provider", "OIDCIssuerURL", "OIDCGroupsClaim", "ProxyImage", "ClientID",
                           "Scope", "RedirectURL", "CookieName"} : Scalar(f)
              /\ \A f \in {"CookieSecure", "PKCEEnabled", "PassAccessToken", "SetXAuthRequest",
                           "PassAuthorizationHeader", "SkipProviderButton"} : Scalar(f)
              /\ List("CookieDomains", "CookieDomainsSet")
              /\ List("WhitelistDomains", "WhitelistDomainsSet")
              /\ List("EmailDomains", "EmailDomainsSet")
              /\ List("AllowedGroups", "AllowedGroupsSet")
              /\ List("ExtraJWTIssuers", "ExtraJWTIssuersSet")
              /\ SecretRef("ClientSecretRef", "client-secret")
              /\ SecretRef("CookieSecretRef", "cookie-secret")
              /\ e.Upstream = IF o.Upstream.set THEN o.Upstream.v ELSE ""

(* a scope override set to the empty string replaced the scope of the ConfigMap *)
C7_Witness ==
    /\ Answered
    /\ result.merged
    /\ result.overrides.Overrides.Scope = PtrTo("")
    /\ result.base.Scope = "openid"
    /\ result.effective.Scope = ""

(* C8: the builder-generated args of the sidecar hold exactly one --upstream= *)
(* argument: the explicit upstream when it is set, whatever the protected     *)
(* port and the port mapping, else http(s)://127.0.0.1:P with P the proxy     *)
(* port of the mapping; the insecure-skip-verify flag is present if and only  *)
(* if upstream-tls is https-insecure.                                         *)
C8_OneUpstreamArg ==
    (Answered /\ result.step = "patched")
        => LET e == result.effective
               upstreams == {i \in 1..Len(BuilderArgs) : HasPrefix(BuilderArgs[i], "--upstream=")}
               local == "://127.0.0.1:" \o Itoa(result.mapping.ProxyPort)
               expected == IF e.Upstream # "" THEN "--upstream=" \o e.Upstream
                           ELSE IF e.UpstreamTLS = "http" THEN "--upstream=http" \o local
                           ELSE "--upstream=https" \o local
           IN /\ Cardinality(upstreams) = 1
              /\ \A i \in upstreams : BuilderArgs[i] = expected
              /\ ("--ssl-upstream-insecure-skip-verify=true" \in Range(BuilderArgs))
                    <=> e.UpstreamTLS = "https-insecure"

(* a sidecar was built for a pod with both an explicit upstream and a protected port *)
C8_Witness ==
    /\ Answered
    /\ result.step = "patched"
    /\ result.effective.Upstream # ""
    /\ result.effective.ProtectedPort # ""
    /\ result.mapped
    /\ "--upstream=" \o result.effective.Upstream \in Range(BuilderArgs)

(* C9: the port mapping takes the first port, in pod order, whose name equals *)
(* the protected port or, for a numeric protected port, whose number is the   *)
(* number written in the annotation; when no port matches the admission is    *)
(* denied and no patch is produced.                                           *)
C9_FirstMatchingPort ==
    (Answered /\ result.merged /\ result.effective.ProtectedPort # "")
        => LET protectedPort == result.effective.ProtectedPort
               ports == collectContainerPorts(pod)
               Matches(p) == IF IsNamedPort(protectedPort) THEN p.Name = protectedPort
                             ELSE DenotesInt32(protectedPort, p.ContainerPort)
               first == FirstIndex(ports, Matches)
           IN IF first # 0
              THEN /\ result.step # "ports"
                   /\ result.mapped
                   /\ result.mapping.ProxyPort = ports[first].ContainerPort
              ELSE /\ result.step = "ports"
                   /\ result.err # ""
                   /\ result.ops = <<>>
                   /\ ~response.Review.Allowed

(* C10: an enabled pod with upstream set and no protected port, whose config  *)
(* is otherwise valid, is patched without a port mapping, whatever            *)
(* block-direct-access says: no port is removed, no probe port replaced, the  *)
(* sidecar has --upstream=<the annotation> and the injected annotation is     *)
(* added.                                                                     *)
C10_UpstreamOnlySucceeds ==
    (/\ Answered
     /\ result.merged
     /\ result.effective.Upstream # ""
     /\ result.effective.ProtectedPort = ""
     /\ ~IsKnativePod(pod))
        => /\ result.step = "patched"
           /\ result.err = ""
           /\ ~result.mapped
           /\ OpsWhere(IsPortRemove) = {}
           /\ OpsWhere(IsProbeReplace) = {}
           /\ OpsWhere(IsSidecarAdd) # {}
           /\ "--upstream=" \o result.effective.Upstream \in Range(SidecarArgs)
           /\ OpsWhere(IsInjectedAdd) # {}

(* the sidecar the patch adds, as the JSON value of its operation *)
SidecarJSON == result.ops[CHOOSE i \in OpsWhere(IsSidecarAdd) : TRUE].Value

(* the names of the environment variables of the sidecar *)
SidecarEnvNames == {SidecarJSON.m["env"].a[i].m["name"].s : i \in 1..Len(SidecarJSON.m["env"].a)}

(* C11: with pkceEnabled the args of the sidecar hold --code-challenge-method *)
(* =S256 immediately followed by --client-secret-file=/dev/null and its       *)
(* environment has no OAUTH2_PROXY_CLIENT_SECRET, even when a client-secret   *)
(* reference is configured; OAUTH2_PROXY_COOKIE_SECRET is in every sidecar.   *)
C11_PKCESuppressesClientSecret ==
    (Answered /\ result.step = "patched")
        => /\ "OAUTH2_PROXY_COOKIE_SECRET" \in SidecarEnvNames
           /\ result.effective.PKCEEnabled
                => /\ \E i \in 1..(Len(SidecarArgs) - 1) :
                        /\ SidecarArgs[i] = "--code-challenge-method=S256"
                        /\ SidecarArgs[i + 1] = "--client-secret-file=/dev/null"
                   /\ "OAUTH2_PROXY_CLIENT_SECRET" \notin SidecarEnvNames

(* the block of the argument list an argument belongs to, by its flag: 1 to 4 *)
(* the fixed prefix, 5 the upstream block, 6 the boolean flags, 7 the PKCE    *)
(* pair, 8 the scalar options, 9 the list options, 0 for any other argument   *)
ArgBlock(arg) ==
    IF HasPrefix(arg, "--provider=") THEN 1
    ELSE IF HasPrefix(arg, "--oidc-issuer-url=") THEN 2
    ELSE IF HasPrefix(arg, "--client-id=") THEN 3
    ELSE IF HasPrefix(arg, "--http-address=") THEN 4
    ELSE IF \E f \in {"--upstream=", "--ssl-upstream-insecure-skip-verify="} : HasPrefix(arg, f) THEN 5
    ELSE IF \E f \in {"--cookie-secure=", "--skip-provider-button=", "--skip-jwt-bearer-tokens=",
                      "--pass-access-token=", "--set-xauthrequest=",
                      "--pass-authorization-header="} : HasPrefix(arg, f) THEN 6
    ELSE IF \E f \in {"--code-challenge-method=", "--client-secret-file="} : HasPrefix(arg, f) THEN 7
    ELSE IF \E f \in {"--scope=", "--oidc-groups-claim=", "--redirect-url=", "--cookie-name=",
                      "--ping-path=", "--ready-path="} : HasPrefix(arg, f) THEN 8
    ELSE IF \E f \in {"--extra-jwt-issuers=", "--email-domain=", "--allowed-group=",
                      "--skip-auth-route=", "--api-route=", "--cookie-domain=",
                      "--whitelist-domain="} : HasPrefix(arg, f) THEN 9
    ELSE 0

(* the builder-generated arguments that carry the flag, in their order *)
ArgsOf(flag) == SelectSeq(BuilderArgs, LAMBDA arg : HasPrefix(arg, flag))

C13_SidecarPort ==
    (Answered /\ result.step = "patched")
        => LET protectedPort == result.effective.ProtectedPort
               ports == SidecarJSON.m["ports"].a
           IN /\ SidecarJSON.m["name"] = JString("oauth2-proxy")
              /\ Len(ports) = 1
              /\ ports[1].m["containerPort"] = JNumber(4180)
              /\ ports[1].m["protocol"] = JString("TCP")
              /\ ports[1].m["name"]
                    = JString(IF \E i \in 1..Len(protectedPort) : Char(protectedPort, i) \notin Digits
                              THEN protectedPort ELSE "oauth2-proxy")

(* a sidecar took over the name of the protected port *)
C13_Witness ==
    /\ Answered
    /\ result.step = "patched"
    /\ result.effective.ProtectedPort = "http"
    /\ SidecarJSON.m["ports"].a[1].m["name"] = JString("http")

(* the state right after the webhook answered a well-formed CREATE of a      *)
(* Service that asks for a rewrite and was not rewritten before               *)
ServiceAnswered ==
    /\ phase = "answered"
    /\ envelope = Create("service")
    /\ KeyRewritePorts \in DOMAIN service.Annotations
    /\ ServiceKeyInjected \notin DOMAIN service.Annotations

(* the identifiers the rewrite-ports annotation lists *)
Identifiers == Split(TrimSpace(service.Annotations[KeyRewritePorts]), ",")

(* a named identifier matches the name of the port, a numeric one its        *)
(* targetPort or its port                                                    *)
IdentifierMatches(id, port) ==
    IF \E i \in 1..Len(id) : Char(id, i) \notin Digits THEN port.Name = id
    ELSE \/ port.TargetPort.Type = "Int" /\ DenotesInt32(id, port.TargetPort.IntVal)
         \/ DenotesInt32(id, port.Port)

(* the service port with index i (from 1) matches some listed identifier *)
PortMatches(i) ==
    \E k \in 1..Len(Identifiers) : IdentifierMatches(Identifiers[k], service.Spec.Ports[i])

(* the operations on the targetPort of the service port with index i (from 1) *)
TargetOps(i) ==
    {k \in 1..Len(result.ops) : result.ops[k].Path = "/spec/ports/" \o Itoa(i - 1) \o "/targetPort"}

(* the path of the annotation that stashes the original target of a port *)
StashPath(port) ==
    "/metadata/annotations/spacemule.net~1oauth2-proxy.original-target."
        \o escapeJSONPointer(IF port.Name # "" THEN port.Name ELSE Itoa(port.Port))

(* the proxy port the Service asks for: 4180 unless proxy-port says otherwise *)
RequestedProxyPort(n) ==
    IF KeyProxyPort \in DOMAIN service.Annotations THEN Itoa(n) = service.Annotations[KeyProxyPort]
    ELSE n = 4180

(* port i is rewritten exactly when it matches: its two operations are the   *)
(* stash annotation followed by the add of the targetPort, and no operation  *)
(* is on a port that matches no identifier                                   *)
RewrittenIffMatched ==
    /\ \A i \in 1..Len(service.Spec.Ports) :
            IF PortMatches(i)
            THEN \E k \in 2..Len(result.ops) :
                    /\ TargetOps(i) = {k}
                    /\ result.ops[k].Op = "add"
                    /\ result.ops[k].Value.t = "number"
                    /\ RequestedProxyPort(result.ops[k].Value.n)
                    /\ result.ops[k - 1].Op = "add"
                    /\ result.ops[k - 1].Path = StashPath(service.Spec.Ports[i])
            ELSE TargetOps(i) = {}
    /\ \A k \in 1..Len(result.ops) :
            HasPrefix(result.ops[k].Path, "/spec/ports/")
                => \E i \in 1..Len(service.Spec.Ports) : PortMatches(i) /\ k \in TargetOps(i)
    /\ Cardinality({k \in 1..Len(result.ops) :
                        HasPrefix(result.ops[k].Path,
                                  "/metadata/annotations/spacemule.net~1oauth2-proxy.original-target.")})
            = Cardinality({i \in 1..Len(service.Spec.Ports) : PortMatches(i)})

StashValue(i) == result.ops[(CHOOSE k \in TargetOps(i) : TRUE) - 1].Value

(* the targetPort a stashed value denotes when it is parsed again *)
Reparsed(value) ==
    IF value # "" /\ AllDigits(value) THEN FromInt32(AtoiInt32(value)) ELSE FromString(value)

(* the targetPort of a port is unset: the zero value of IntOrString *)
TargetPortUnset(port) == port.TargetPort = FromInt32(0)

(* C15: for every rewritten Service port the original-target annotation holds *)
(* the targetPort of before the mutation, to be recovered by parsing it       *)
(* again: the decimal IntVal of an integer targetPort, the StrVal of a named  *)
(* one, the decimal port when the targetPort is unset.                        *)
C15_StashRoundTrips ==
    (ServiceAnswered /\ result.err = "")
        => \A i \in {j \in 1..Len(service.Spec.Ports) : TargetOps(j) # {}} :
              LET port == service.Spec.Ports[i]
              IN /\ StashValue(i).t = "string"
                 /\ IF TargetPortUnset(port)
                    THEN StashValue(i).s = Itoa(port.Port)
                    ELSE /\ Reparsed(StashValue(i).s) = port.TargetPort
                         /\ StashValue(i).s = IF port.TargetPort.Type = "Int"
                                               THEN Itoa(port.TargetPort.IntVal)
                                               ELSE port.TargetPort.StrVal

(* the operations of the patch on the value of an environment variable *)
EnvOps ==
    {k \in 1..Len(result.ops) :
        /\ HasPrefix(result.ops[k].Path, "/spec/containers/")
        /\ Len(result.ops[k].Path) > 6
        /\ SubSeq(result.ops[k].Path, Len(result.ops[k].Path) - 5, Len(result.ops[k].Path)) = "/value"}

(* the indices (from 1) of the containers named queue-proxy, and of the       *)
(* USER_PORT variables of the container c                                     *)
QueueProxies == {c \in 1..Len(pod.Spec.Containers) : pod.Spec.Containers[c].Name = "queue-proxy"}
UserPorts(c) ==
    {j \in 1..Len(pod.Spec.Containers[c].Env) : pod.Spec.Containers[c].Env[j].Name = "USER_PORT"}

(* the pod is a platform pod: a queue-proxy container or one of the two labels *)
PlatformPod ==
    \/ QueueProxies # {}
    \/ "serving.knative.dev/service" \in DOMAIN pod.Labels
    \/ "serving.knative.dev/revision" \in DOMAIN pod.Labels

(* C16: a pod is a platform (Knative) pod if and only if it has a container   *)
(* named queue-proxy or one of the labels serving.knative.dev/service and     *)
(* serving.knative.dev/revision; every patch for such a pod has exactly one   *)
(* replace of /spec/containers/c/env/j/value with "4180", c being the         *)
(* queue-proxy container and j its USER_PORT variable; when the container or  *)
(* the variable is missing the mutation fails with an error; for every other  *)
(* pod no operation on an environment variable is emitted.                    *)
C16_PlatformSidecar ==
    (Answered /\ result.step \notin {"disabled", "injected"})
        => /\ (PlatformPod /\ result.step = "patched")
                => \E c \in QueueProxies : \E j \in UserPorts(c) :
                      /\ \A d \in QueueProxies : c <= d
                      /\ \A i \in UserPorts(c) : j <= i
                      /\ Cardinality(EnvOps) = 1
                      /\ \A k \in EnvOps :
                            result.ops[k]
                                = PatchOperation("replace",
                                                 "/spec/containers/" \o Itoa(c - 1) \o "/env/"
                                                    \o Itoa(j - 1) \o "/value",
                                                 JString("4180"))
           /\ (PlatformPod /\ \A c \in QueueProxies : UserPorts(c) = {})
                => result.err # "" /\ result.ops = <<>> /\ ~response.Review.Allowed
           /\ ~PlatformPod => EnvOps = {}

(* a pod with a queue-proxy container and no platform label was patched: the  *)
(* USER_PORT of the queue-proxy now is 4180                                   *)
C16_Witness ==
    /\ Answered
    /\ result.step = "patched"
    /\ DOMAIN pod.Labels = {}
    /\ Len(pod.Spec.Containers) = 2
    /\ pod.Spec.Containers[2].Name = "queue-proxy"
    /\ EnvOps # {}
    /\ \A k \in EnvOps : result.ops[k].Path = "/spec/containers/1/env/1/value"

(* the webhook answered a request that reached handleAdmissionRequest with a  *)
(* UID: a POST of an AdmissionReview with a request in it                     *)
RequestAnswered ==
    /\ phase = "answered"
    /\ envelope.Method = "POST"
    /\ envelope.ContentType = "application/json"
    /\ envelope.BodyOK
    /\ envelope.HasRequest
    /\ envelope.UID # ""

(* the response allows the request without a patch, and the mutator did not run *)
PassedThrough ==
    /\ response.Status = 200
    /\ response.Review.Allowed
    /\ response.Review.UID = envelope.UID
    /\ response.Review.Patch = JNull
    /\ response.Review.PatchType = ""
    /\ result.step = "none"

(* C17: a request with a UID whose operation is not CREATE is allowed without *)
(* a patch, on either route, and the mutator is not invoked, whether or not   *)
(* the object of the request is present or decodable.                         *)
C17_NonCreatePassesThrough ==
    (RequestAnswered /\ envelope.Operation # "CREATE") => PassedThrough

(* C18: a request with a UID whose kind is not core/v1 Pod on the pod route,  *)
(* or not core/v1 Service on the service route, is allowed without a patch    *)
(* and the mutator is not invoked.                                            *)
C18_OtherKindPassesThrough ==
    (/\ RequestAnswered
     /\ envelope.Kind # [Group |-> "", Version |-> "v1",
                         Kind |-> IF envelope.Route = "pod" THEN "Pod" ELSE "Service"])
        => PassedThrough

(* a Pod of another version was passed through on the pod route *)
C18_Witness ==
    /\ RequestAnswered
    /\ envelope.Route = "pod"
    /\ envelope.Kind = [Group |-> "", Version |-> "v2", Kind |-> "Pod"]
    /\ envelope.Operation = "CREATE"
    /\ Get(pod.Annotations, KeyEnabled) = "true"
    /\ PassedThrough

(* C19: on the mutate routes the HTTP status is 405 for a request that is not *)
(* a POST, 415 for a POST whose Content-Type is not application/json, 400 for *)
(* a POST whose body is not an AdmissionReview, and 200 with an               *)
(* AdmissionReview in every other case, allowed, patched or denied; the       *)
(* method is checked before the content type, the content type before the     *)
(* body.                                                                      *)
C19_HTTPStatus ==
    phase = "answered"
        => /\ response.Status
                = IF envelope.Method # "POST" THEN 405
                  ELSE IF envelope.ContentType # "application/json" THEN 415
                  ELSE IF ~envelope.BodyOK THEN 400
                  ELSE 200
           /\ response.HasReview <=> response.Status = 200
           /\ response.Status # 200 => result.step = "none" /\ result.ops = <<>>

(* a GET with a content type that is not JSON was answered 405 *)
C19_Witness ==
    /\ phase = "answered"
    /\ envelope.Method = "GET"
    /\ envelope.ContentType = "text/plain"
    /\ response.Status = 405

(* the boolean annotations of a pod that are overrides, with their field *)
OverrideBooleans ==
    {<<KeyCookieSecure, "CookieSecure">>, <<KeyPKCEEnabled, "PKCEEnabled">>,
     <<KeyPassAccessToken, "PassAccessToken">>, <<KeySetXAuthRequest, "SetXAuthRequest">>,
     <<KeyPassAuthorizationHeader, "PassAuthorizationHeader">>,
     <<KeySkipProviderButton, "SkipProviderButton">>}

BooleanKeys == {KeyBlockDirectAccess, KeySkipJWTBearerTokens} \cup {b[1] : b \in OverrideBooleans}

(* the value is a boolean: true, false, 1 or 0 once trimmed, in any case *)
AcceptedBoolean(value) == ToLower(TrimSpace(value)) \in {"true", "false", "1", "0"}
TrueBoolean(value) == ToLower(TrimSpace(value)) \in {"true", "1"}

(* C20: a boolean annotation of an enabled pod (block-direct-access,          *)
(* skip-jwt-bearer-tokens and the override booleans) is accepted if and only  *)
(* if its trimmed value is one of true, false, 1, 0 in any case; any other    *)
(* value makes Parse fail; an accepted override boolean is stored as set, so  *)
(* that an absent annotation differs from false.                              *)
C20_BooleanAnnotations ==
    (Answered /\ Get(pod.Annotations, KeyEnabled) = "true")
        => /\ (\E k \in BooleanKeys \cap DOMAIN pod.Annotations :
                    ~AcceptedBoolean(pod.Annotations[k]))
                => result.step = "parse" /\ result.err # "" /\ result.ops = <<>>
           /\ result.step \notin {"parse", "injected"}
                => /\ \A b \in OverrideBooleans :
                        result.overrides.Overrides[b[2]]
                            = IF b[1] \in DOMAIN pod.Annotations
                              THEN PtrTo(TrueBoolean(pod.Annotations[b[1]]))
                              ELSE NilBool
                   /\ result.overrides.BlockDirectAccess
                        = TrueBoolean(Get(pod.Annotations, KeyBlockDirectAccess))
                   /\ result.overrides.SkipJWTBearerTokens
                        = TrueBoolean(Get(pod.Annotations, KeySkipJWTBearerTokens))

(* the list annotations of a pod that are overrides, with their field *)
OverrideLists ==
    {<<KeyEmailDomains, "EmailDomains">>, <<KeyAllowedGroups, "AllowedGroups">>,
     <<KeyWhitelistDomains, "WhitelistDomains">>, <<KeyCookieDomains, "CookieDomains">>,
     <<KeyExtraJWTIssuers, "ExtraJWTIssuers">>}

(* the comma-separated elements of the annotation k, trimmed, the empty ones dropped *)
ListElements(k) == IF Has(pod.Annotations, k) THEN splitAndTrim(pod.Annotations[k], ",") ELSE <<>>

(* the mutator got as far as loading the configuration: result.overrides is *)
(* the Config that Parse returned                                           *)
ParsedAnnotations == Answered /\ result.step \notin {"disabled", "parse", "injected"}

(* C21: each list annotation (ignore-paths, api-paths, email-domains,        *)
(* allowed-groups, whitelist-domains, cookie-domains, extra-jwt-issuers) is  *)
(* parsed to its comma-separated elements, each trimmed, the empty elements  *)
(* dropped; a present annotation with an empty value gives the empty         *)
(* sequence and, for an override list, sets its Set flag.                    *)
C21_ListAnnotations ==
    ParsedAnnotations
        => /\ result.overrides.IgnorePaths = ListElements(KeyIgnorePaths)
           /\ result.overrides.APIPaths = ListElements(KeyAPIPaths)
           /\ \A l \in OverrideLists :
                /\ result.overrides.Overrides[l[2]] = ListElements(l[1])
                /\ result.overrides.Overrides[l[2] \o "Set"] = Has(pod.Annotations, l[1])

(* the image of the sidecar the patch adds *)
SidecarImage == StringMember(SidecarJSON, "image")

(* the ConfigMap that was loaded, if one was, has no proxy-image key *)
NoImageKey == \A i \in 1..Len(result.loads) :
                    ~Has(cluster[<<result.loads[i][2], result.loads[i][1]>>], CMKeyProxyImage)

(* C22: the sidecar image is never empty: when the loaded ConfigMap has no   *)
(* proxy-image key and no proxy-image annotation overrides it, the effective *)
(* image is the compiled-in default, with a ConfigMap loaded and in          *)
(* annotation-only mode alike.                                               *)
C22_ImageNeverEmpty ==
    (Answered /\ result.step = "patched")
        => /\ SidecarImage = result.effective.ProxyImage
           /\ SidecarImage # ""
           /\ (NoImageKey /\ ~Has(pod.Annotations, KeyProxyImage))
                => SidecarImage = DefaultProxyImage

(* the place of an operation in the order of the patch, 0 for an operation *)
(* the patch is not expected to hold                                       *)
OpRank(op) ==
    IF IsInitContainerOp(op) /\ op.Op = "add" THEN 1
    ELSE IF IsSidecarAdd(op) THEN 2
    ELSE IF IsPortRemove(op) THEN 3
    ELSE IF IsProbeReplace(op) THEN (IF op.Value = JNumber(4180) THEN 5 ELSE 4)
    ELSE IF HasPrefix(op.Path, "/spec/volumes") /\ op.Op = "add" THEN 6
    ELSE IF op.Op = "replace" /\ HasPrefix(op.Path, "/spec/containers/")
            /\ Len(op.Path) > 6 /\ SubSeq(op.Path, Len(op.Path) - 5, Len(op.Path)) = "/value"
    THEN 7
    ELSE IF IsInjectedAdd(op) THEN 8
    ELSE 0

(* the operations of the returned patch that have rank r *)
Ranked(r) == {i \in 1..Len(result.ops) : OpRank(result.ops[i]) = r}

(* the paths of the container ports of the pod that carry the name *)
PortPaths(name) ==
    UNION {{"/spec/containers/" \o Itoa(i - 1) \o "/ports/" \o Itoa(j - 1) :
                j \in {k \in 1..Len(pod.Spec.Containers[i].Ports) :
                            pod.Spec.Containers[i].Ports[k].Name = name}} :
            i \in 1..Len(pod.Spec.Containers)}

NamedMode == IsNamedPort(result.effective.ProtectedPort)

(* C23: in a non-empty pod patch the operations come in this order: the      *)
(* init-container add if any, the sidecar add, in named-port mode exactly    *)
(* one remove of the protected container port, the Pass-A probe replaces     *)
(* (named mode only), the Pass-B probe replaces (block-direct-access only),  *)
(* the volume adds, the platform-sidecar env replace, and last the add of    *)
(* the injected annotation "true"; outside named mode there is no remove,    *)
(* and in numeric mode without block-direct-access no probe replace.         *)
C23_PatchOrder ==
    (Answered /\ result.ops # <<>>)
        => /\ \A i \in 1..Len(result.ops) : OpRank(result.ops[i]) # 0
           /\ \A i, j \in 1..Len(result.ops) :
                    i < j => OpRank(result.ops[i]) <= OpRank(result.ops[j])
           /\ Cardinality(Ranked(1)) <= 1
           /\ Cardinality(Ranked(2)) = 1
           /\ Cardinality(Ranked(7)) <= 1
           /\ Ranked(8) = {Len(result.ops)}
           /\ IF NamedMode
              THEN /\ Cardinality(Ranked(3)) = 1
                   /\ \A i \in Ranked(3) :
                        result.ops[i].Path \in PortPaths(result.effective.ProtectedPort)
              ELSE Ranked(3) = {} /\ Ranked(4) = {}
           /\ ~result.effective.BlockDirectAccess => Ranked(5) = {}

(* a named protected port with block-direct-access on a platform pod: the *)
(* patch holds an operation of every kind but a volume add                *)
C23_Witness ==
    /\ Answered
    /\ NamedMode
    /\ result.effective.BlockDirectAccess
    /\ \A r \in {1, 2, 3, 4, 5, 7, 8} : Ranked(r) # {}

(* the pod after the API server applied the patch of the response to it *)
PatchApplies == ApplyPatch(PodJSON(pod), UnmarshalPatches(response.Review.Patch)).ok
PatchedPod == PodFromJSON(ApplyPatch(PodJSON(pod), UnmarshalPatches(response.Review.Patch)).doc)

(* the probes of a container, by the field of Container and its JSON name *)
ProbeFields == {<<"LivenessProbe", "livenessProbe">>, <<"ReadinessProbe", "readinessProbe">>,
                <<"StartupProbe", "startupProbe">>}

(* the probes of the pod that have an httpGet or a tcpSocket handler, as *)
(* <<container (from 1), field, JSON name>>                              *)
HandlerProbes ==
    {<<i, f[1], f[2]>> : i \in 1..Len(pod.Spec.Containers), f \in ProbeFields}
    \cap {x \in (1..Len(pod.Spec.Containers)) \X {f[1] : f \in ProbeFields}
                    \X {f[2] : f \in ProbeFields} :
                /\ pod.Spec.Containers[x[1]][x[2]].set
                /\ \/ pod.Spec.Containers[x[1]][x[2]].HTTPGet.set
                   \/ pod.Spec.Containers[x[1]][x[2]].TCPSocket.set}

HandlerPort(probe) == IF probe.HTTPGet.set THEN probe.HTTPGet.Port ELSE probe.TCPSocket.Port

(* the path of the port of the probe x of the pod *)
ProbePortPath(x) ==
    "/spec/containers/" \o Itoa(x[1] - 1) \o "/" \o x[3] \o "/"
        \o (IF pod.Spec.Containers[x[1]][x[2]].HTTPGet.set THEN "httpGet" ELSE "tcpSocket")
        \o "/port"

(* the handler port is the protected port: the string of the annotation in *)
(* named mode, the number the annotation writes in numeric mode            *)
MatchesProtectedPort(port) ==
    IF NamedMode THEN port.Type = "String" /\ port.StrVal = result.effective.ProtectedPort
    ELSE port.Type = "Int" /\ DenotesInt32(result.effective.ProtectedPort, port.IntVal)

(* the operations of rank r on the port of the probe x *)
ProbeOps(r, x) == {k \in Ranked(r) : result.ops[k].Path = ProbePortPath(x)}

(* C24: with block-direct-access a probe (liveness, readiness or startup;    *)
(* httpGet or tcpSocket) is rewritten to 4180 if and only if its handler     *)
(* port is the protected port: the string equal to the annotation in named   *)
(* mode, the number equal to the annotation in numeric mode; once the patch  *)
(* is applied each such probe has the integer port 4180, the Pass-B replace  *)
(* coming after the Pass-A replace of the same path, and every other probe   *)
(* port is unchanged.                                                        *)
C24_BlockedProbes ==
    (Answered /\ result.step = "patched" /\ result.effective.BlockDirectAccess)
        => \A x \in HandlerProbes :
            /\ ProbeOps(5, x) # {} <=> MatchesProtectedPort(HandlerPort(pod.Spec.Containers[x[1]][x[2]]))
            /\ \A a \in ProbeOps(4, x) : \A b \in ProbeOps(5, x) : a < b
            /\ PatchApplies
                => HandlerPort(PatchedPod.Spec.Containers[x[1]][x[2]])
                    = IF MatchesProtectedPort(HandlerPort(pod.Spec.Containers[x[1]][x[2]]))
                      THEN FromInt32(4180)
                      ELSE HandlerPort(pod.Spec.Containers[x[1]][x[2]])

(* the operations that replace the port of the probe x *)
ReplaceOps(x) == ProbeOps(4, x) \cup ProbeOps(5, x)

(* the numbers of the ports of the container i of the pod that carry the name *)
OwnPorts(i, name) ==
    {pod.Spec.Containers[i].Ports[j].ContainerPort :
        j \in {k \in 1..Len(pod.Spec.Containers[i].Ports) :
                    pod.Spec.Containers[i].Ports[k].Name = name}}

(* the handler port of the probe x is the string of the protected name *)
NamesProtectedPort(x) ==
    /\ HandlerPort(pod.Spec.Containers[x[1]][x[2]]).Type = "String"
    /\ HandlerPort(pod.Spec.Containers[x[1]][x[2]]).StrVal = result.effective.ProtectedPort

(* C25: in named-port mode without block-direct-access every probe whose     *)
(* handler port is the string of the protected name is replaced by an        *)
(* integer port, the containerPort that the name denoted for the probe's own *)
(* container before the patch, so that the target of the probe is unchanged; *)
(* a probe that does not reference the name is not touched.                  *)
C25_NamedProbesKeepTarget ==
    (Answered /\ result.step = "patched" /\ NamedMode /\ ~result.effective.BlockDirectAccess)
        => \A x \in HandlerProbes :
            IF NamesProtectedPort(x)
            THEN /\ Cardinality(ReplaceOps(x)) = 1
                 /\ \A k \in ReplaceOps(x) :
                        /\ result.ops[k].Value.t = "number"
                        /\ result.ops[k].Value.n \in OwnPorts(x[1], result.effective.ProtectedPort)
                 /\ PatchApplies
                        => /\ HandlerPort(PatchedPod.Spec.Containers[x[1]][x[2]]).Type = "Int"
                           /\ HandlerPort(PatchedPod.Spec.Containers[x[1]][x[2]]).IntVal
                                \in OwnPorts(x[1], result.effective.ProtectedPort)
            ELSE /\ ReplaceOps(x) = {}
                 /\ PatchApplies
                        => HandlerPort(PatchedPod.Spec.Containers[x[1]][x[2]])
                            = HandlerPort(pod.Spec.Containers[x[1]][x[2]])

(* the container ports of the pod p that carry the name, as <<container, port>> *)
CarriersOf(p, name) ==
    UNION {{<<i, j>> : j \in {k \in 1..Len(p.Spec.Containers[i].Ports) :
                                    p.Spec.Containers[i].Ports[k].Name = name}} :
            i \in 1..Len(p.Spec.Containers)}

(* C26: in named-port mode, once the patch is applied the protected port     *)
(* name is carried by exactly one container port of the pod, the port 4180   *)
(* of the sidecar, so that routing by name reaches the proxy and never an    *)
(* application container; the port removed from the application is the port  *)
(* whose containerPort is the upstream of the proxy.                         *)
C26_SidecarOwnsPortName ==
    (Answered /\ result.step = "patched" /\ NamedMode /\ PatchApplies)
        => /\ \A x \in CarriersOf(PatchedPod, result.effective.ProtectedPort) :
                /\ PatchedPod.Spec.Containers[x[1]].Name = SidecarContainerName
                /\ PatchedPod.Spec.Containers[x[1]].Ports[x[2]].ContainerPort = 4180
           /\ Cardinality(CarriersOf(PatchedPod, result.effective.ProtectedPort)) = 1
           /\ \A k \in Ranked(3) :
                \E x \in CarriersOf(pod, result.effective.ProtectedPort) :
                    /\ result.ops[k].Path
                         = "/spec/containers/" \o Itoa(x[1] - 1) \o "/ports/" \o Itoa(x[2] - 1)
                    /\ pod.Spec.Containers[x[1]].Ports[x[2]].ContainerPort
                         = result.mapping.ProxyPort
                    /\ "--upstream=http://127.0.0.1:" \o Itoa(result.mapping.ProxyPort)
                         \in Range(SidecarArgs)
                       \/ result.effective.Upstream # ""
                       \/ result.effective.UpstreamTLS # UpstreamNoTLS

(* what Build returns for the builder: both builders copy their operations *)
Built == Build(builder)

(* the parents a builder creates on demand *)
Parents == {"/metadata/annotations", "/metadata/labels", "/spec/volumes"}

(* the constructor was told that the parent exists; a ServicePatchBuilder *)
(* has a hint for the annotations only                                    *)
Hint(parent) ==
    IF parent = "/metadata/annotations" THEN calls[1][2]
    ELSE IF calls[1][1] # "NewPatchBuilder" THEN TRUE
    ELSE IF parent = "/metadata/labels" THEN calls[1][3]
    ELSE calls[1][4]

(* the operations that create the parent, and the adds of a child under it *)
ParentOps(parent) == {i \in 1..Len(Built) : Built[i].Op = "add" /\ Built[i].Path = parent}
ChildAdds(parent) ==
    {i \in 1..Len(Built) : Built[i].Op = "add" /\ HasPrefix(Built[i].Path, parent \o "/")}

(* the operations that do not create a parent, in the order of Build *)
IsChildOp(op) == op.Path \notin Parents
ChildOps == SelectSeq(Built, IsChildOp)

(* path is prefix followed by one reference token that stands for key: no  *)
(* "/" in it, every "~" followed by 0 or 1, and key once unescaped          *)
IsTokenOf(path, prefix, key) ==
    /\ HasPrefix(path, prefix)
    /\ LET token == SubSeq(path, Len(prefix) + 1, Len(path))
       IN /\ \A i \in 1..Len(token) :
                /\ Char(token, i) # "/"
                /\ Char(token, i) = "~"
                        => i < Len(token) /\ Char(token, i + 1) \in {"0", "1"}
          /\ Unescape(token) = key

(* the operation is the one the call asks for *)
Performs(op, call) ==
    IF call[1] = "AddContainer" THEN op = PatchOperation("add", "/spec/containers/-", call[2])
    ELSE IF call[1] = "AddInitContainer"
    THEN op = PatchOperation("add", "/spec/initContainers/-", call[2])
    ELSE IF call[1] = "AddVolume" THEN op = PatchOperation("add", "/spec/volumes/-", call[2])
    ELSE IF call[1] = "AddAnnotation"
    THEN /\ op.Op = "add" /\ op.Value = JString(call[3])
         /\ IsTokenOf(op.Path, "/metadata/annotations/", call[2])
    ELSE IF call[1] = "AddLabel"
    THEN /\ op.Op = "add" /\ op.Value = JString(call[3])
         /\ IsTokenOf(op.Path, "/metadata/labels/", call[2])
    ELSE IF call[1] = "RemovePort"
    THEN op = PatchOperation("remove", "/spec/containers/" \o Itoa(call[2]) \o "/ports/"
                                            \o Itoa(call[3]), NoValue)
    ELSE IF call[1] = "ReplaceProbePort"
    THEN op = PatchOperation("replace", "/spec/containers/" \o Itoa(call[2]) \o "/" \o call[3]
                                            \o "/" \o call[4] \o "/port", JNumber(call[5]))
    ELSE IF call[1] = "ReplaceEnvVarValue"
    THEN op = PatchOperation("replace", "/spec/containers/" \o Itoa(call[2]) \o "/env/"
                                            \o Itoa(call[3]) \o "/value", JString(call[4]))
    ELSE /\ call[1] = "ReplaceTargetPort"
         /\ op = PatchOperation("add", "/spec/ports/" \o Itoa(call[2]) \o "/targetPort",
                                JNumber(call[3]))

(* C27: whatever the calls on a patch builder, the operation that creates    *)
(* /metadata/annotations, /metadata/labels or /spec/volumes is emitted at    *)
(* most once, only when the constructor was told the parent is absent, and   *)
(* right before the first add of a child of that parent; Build returns the   *)
(* operations in the order of the calls, the annotation and label keys      *)
(* escaped per RFC 6901.                                                     *)
C27_BuilderParents ==
    phase = "builder"
        => /\ \A parent \in Parents :
                /\ Cardinality(ParentOps(parent)) <= 1
                /\ ParentOps(parent) # {} => ~Hint(parent)
                /\ \A i \in ParentOps(parent) :
                        /\ i + 1 \in ChildAdds(parent)
                        /\ \A j \in ChildAdds(parent) : j > i
           /\ Len(ChildOps) = Len(calls) - 1
           /\ \A k \in 1..Len(ChildOps) : Performs(ChildOps[k], calls[k + 1])

(* a builder told that there are no annotations, after another call and two *)
(* annotations, the first with a key that holds "/" and "~"                  *)
C27_Witness ==
    /\ phase = "builder"
    /\ Len(calls) = 4
    /\ ~Hint("/metadata/annotations")
    /\ calls[2][1] = "RemovePort"
    /\ calls[3] = <<"AddAnnotation", "x~/y", "true">>
    /\ calls[4][1] = "AddAnnotation"
    /\ ParentOps("/metadata/annotations") = {2}
    /\ Built[3].Path = "/metadata/annotations/x~0~1y"

(* the digit string writes a number outside the port range 1..65535 *)
OutOfPortRange(s) ==
    /\ s # ""
    /\ AllDigits(s)
    /\ \/ StripZeros(s) = "0"
       \/ Len(StripZeros(s)) > 5
       \/ Len(StripZeros(s)) = 5 /\ DigitsLess("65535", StripZeros(s))

(* C28: a protected-port annotation of digits only whose number is outside   *)
(* 1..65535 never leads to a patch, the admission is denied: the number is   *)
(* compared as written, so that a value which differs from a containerPort   *)
(* by a multiple of 2^32 does not match that port.                           *)
C28_PortOutOfRangeDenied ==
    (/\ Answered
     /\ result.step \notin {"disabled", "injected"}
     /\ OutOfPortRange(TrimSpace(Get(pod.Annotations, KeyProtectedPort))))
        => /\ result.ops = <<>>
           /\ result.err # ""
           /\ ~response.Review.Allowed

(* the pod carries the injected annotation and a container named oauth2-proxy *)
CarriesSidecar ==
    /\ Has(pod.Annotations, InjectedAnnotation)
    /\ \E i \in 1..Len(pod.Spec.Containers) : pod.Spec.Containers[i].Name = "oauth2-proxy"

(* C29: the pod mutator loads at most one ConfigMap per admission and none   *)
(* for a pod that is disabled or already injected; it loads the name of the  *)
(* config annotation in the namespace of the pod when that annotation is     *)
(* set, else the default name of the webhook in the default namespace; with  *)
(* neither name nothing is loaded and the merge starts from the empty base   *)
(* with the compiled-in defaults (default image, cookieSecure true).         *)
C29_OneConfigLoad ==
    Answered
        => /\ Len(result.loads) <= 1
           /\ (Get(pod.Annotations, KeyEnabled) # "true" \/ CarriesSidecar) => result.loads = <<>>
           /\ result.step \notin {"disabled", "injected", "parse"}
                => IF Get(pod.Annotations, KeyConfig) # ""
                   THEN result.loads = <<<<pod.Annotations[KeyConfig], pod.Namespace>>>>
                   ELSE IF webhook.defaultConfigMap # ""
                   THEN result.loads
                            = <<<<webhook.defaultConfigMap, webhook.defaultConfigNamespace>>>>
                   ELSE /\ result.loads = <<>>
                        /\ result.base = [ProxyConfig EXCEPT !.ProxyImage = DefaultProxyImage,
                                                              !.CookieSecure = TRUE]

(* the pod names a ConfigMap under a webhook that has a default: the one of *)
(* the pod was loaded, from the namespace of the pod                        *)
C29_Witness ==
    /\ Answered
    /\ webhook = WithDefault
    /\ Get(pod.Annotations, KeyConfig) = "missing-cfg"
    /\ result.loads = <<<<"missing-cfg", "apps">>>>
    /\ result.step = "load"

(* the last n args of the sidecar the patch adds *)
LastArgs(n) == SubSeq(SidecarArgs, Len(SidecarArgs) - n + 1, Len(SidecarArgs))

(* C30: the annotations of a pod have no influence on the extra arguments:   *)
(* whatever annotation set merges with a base config, the effective          *)
(* extraArgs are the extraArgs of the base, and they are, verbatim and in    *)
(* order, the end of the args of the sidecar.                                *)
C30_ExtraArgsFromBaseOnly ==
    (Answered /\ result.merged)
        => /\ result.effective.ExtraArgs = result.base.ExtraArgs
           /\ result.loads = <<>> => result.effective.ExtraArgs = <<>>
           /\ result.step = "patched"
                => /\ Len(SidecarArgs) >= Len(result.base.ExtraArgs)
                   /\ LastArgs(Len(result.base.ExtraArgs)) = result.base.ExtraArgs

(* a pod that overrides the upstream under a ConfigMap with two extra *)
(* arguments, one of them an --upstream                               *)
C30_Witness ==
    /\ Answered
    /\ result.step = "patched"
    /\ Get(pod.Annotations, KeyUpstream) = "https://elsewhere"
    /\ result.base.ExtraArgs = <<"--upstream=http://extra:1", "--banner=x">>
    /\ LastArgs(2) = <<"--upstream=http://extra:1", "--banner=x">>
    /\ "--upstream=https://elsewhere" \in Range(SidecarArgs)

====
